---- MODULE Spec2Model ----
(***************************************************************************)
(* Customer churn analysis: the preprocessing pipeline                     *)
(* (ChurnDataPreprocessor), the feature engineering step                   *)
(* (create_engineered_features) and the run_analysis flow.                 *)
(*                                                                         *)
(* A table (pandas DataFrame) is a record                                  *)
(*   [kind, cols, dtype, index, rows]                                      *)
(* with one row label per row (index) and each row a function from the     *)
(* column names to cell values.  A cell value is a record [k, s, n, d]:    *)
(*   k = "str"     the text s that does not read as a number               *)
(*   k = "txtnum"  a text that reads as the number n/d                     *)
(*   k = "num"     the number n/d (d >= 1, lowest terms)                   *)
(*   k = "nan"     a missing value (NaN / None)                            *)
(*   k = "arr"     a one-element integer array holding n                   *)
(*   k = "txtarr"  the text of such an array                               *)
(***************************************************************************)
EXTENDS Integers, Sequences, FiniteSets, TLC

VARIABLES
    pandas2,         \* the installed pandas sets df.loc[:, col] = v in place (>= 2.0)
    df,              \* the table the caller holds
    label_encoders,  \* ChurnDataPreprocessor.label_encoders: column -> classes_
    scaler,          \* ChurnDataPreprocessor.scaler (StandardScaler state)
    fit_pass,        \* history: a fit=True operation has run on the preprocessor
    res,             \* what the last operation returned or raised
    pc,              \* position of scripts/run_analysis.py main()
    split,           \* the partitions train_test_split produced in main()
    models,          \* ChurnModelTrainer.models: model name -> fitted model
    fs,              \* the file system the persistence functions work on
    data,            \* the rows and labels the trainer is given, and the test
                     \* positions train_test_split(random_state=42) picks on them
    call             \* what the last trainer, persistence or evaluation call did

vars == <<pandas2, df, label_encoders, scaler, fit_pass, res, pc, split,
          models, fs, data, call>>

trainer_vars == <<models, fs, data, call>>

----------------------------------------------------------------------------
(* Bounds of the model *)

\* Rows of an input table of the pipeline and of the encoder.
MaxRows == 3

\* Rows of a numeric input of scale_features.
MaxScaleRows == 2

\* Service columns and rows of an input table of create_engineered_features.
MaxServices == 1

MaxCustomers == 1

----------------------------------------------------------------------------
(* Cell values *)

RECURSIVE GCD(_, _)
GCD(a, b) == IF b = 0 THEN a ELSE GCD(b, a % b)

Str(s) == [k |-> "str", s |-> s, n |-> 0, d |-> 1]

NaN == [k |-> "nan", s |-> "", n |-> 0, d |-> 1]

Rat(n, d) ==
    LET
        Abs(x) == IF x < 0 THEN -x ELSE x
    IN
    LET g == GCD(Abs(n), d)
    IN  [k |-> "num", s |-> "", n |-> n \div g, d |-> d \div g]

Num(n) == Rat(n, 1)

TxtNum(n) == [k |-> "txtnum", s |-> "", n |-> n, d |-> 1]

IsNaN(v) == v.k = "nan"

IsNum(v) == v.k = "num"

\* Arithmetic of the numbers; a missing operand gives a missing result.
RatAdd(a, b) ==
    IF IsNaN(a) \/ IsNaN(b) THEN NaN ELSE Rat(a.n * b.d + b.n * a.d, a.d * b.d)

RatSub(a, b) ==
    IF IsNaN(a) \/ IsNaN(b) THEN NaN ELSE Rat(a.n * b.d - b.n * a.d, a.d * b.d)

RatMul(a, b) ==
    IF IsNaN(a) \/ IsNaN(b) THEN NaN ELSE Rat(a.n * b.n, a.d * b.d)

RatDivInt(a, m) == IF IsNaN(a) THEN NaN ELSE Rat(a.n, a.d * m)

RatLess(a, b) == a.n * b.d < b.n * a.d

\* str(x), as Series.astype(str) and the str(x) of the transform lambda give it.
AsStr(v) ==
    CASE v.k = "nan" -> Str("nan")
      [] v.k = "num" -> [v EXCEPT !.k = "txtnum"]
      [] v.k = "arr" -> [v EXCEPT !.k = "txtarr"]
      [] OTHER -> v

\* pd.to_numeric(x, errors='coerce'): a text that reads as a number becomes
\* that number, any other text becomes missing.
ToNumeric(v) ==
    CASE v.k = "num" -> v
      [] v.k = "txtnum" -> [v EXCEPT !.k = "num"]
      [] OTHER -> NaN

TextLess(a, b) ==
    LET
        \* Order of two texts as numpy sorts them (np.unique inside LabelEncoder.fit).
        \* Digits sort before letters and "[" sorts between the upper and the lower
        \* case letters; the numeric texts of the model are non-negative with one
        \* integer digit, for which the order of the texts is the order of the numbers.
        KindRank(v) ==
            CASE v.k = "txtnum" -> 0
              [] v.k = "txtarr" -> 2
              [] v.k = "str" /\ v.s = "nan" -> 3
              [] OTHER -> 1

        StrRank(s) ==
            LET
                \* The plain texts of the model in code-point order (upper case before lower).
                StrOrder ==
                    <<" ", "0-1 year", "1-2 years", "2-4 years", "4+ years",
                      "A", "B", "C", "D", "DSL", "High", "Low", "Maybe",
                      "Medium", "Month-to-month", "No", "One year", "Yes", "nan">>
            IN
                      CHOOSE i \in 1..Len(StrOrder) : StrOrder[i] = s
    IN
    IF KindRank(a) # KindRank(b) THEN KindRank(a) < KindRank(b)
    ELSE IF a.k = "str" THEN StrRank(a.s) < StrRank(b.s)
    ELSE IF a.k = "txtnum" THEN RatLess(a, b)
    ELSE a.n < b.n

----------------------------------------------------------------------------
(* Sequences *)

Range(s) == {s[i] : i \in 1..Len(s)}

\* The members of a finite set of integers in increasing order.
RECURSIVE Ascending(_)
Ascending(S) ==
    IF S = {} THEN <<>>
    ELSE LET m == CHOOSE x \in S : \A y \in S : x <= y
         IN  <<m>> \o Ascending(S \ {m})

\* A finite set of texts in sorted order (np.unique).
RECURSIVE SortTexts(_)
SortTexts(S) ==
    IF S = {} THEN <<>>
    ELSE LET m == CHOOSE x \in S : \A y \in S \ {x} : TextLess(x, y)
         IN  <<m>> \o SortTexts(S \ {m})

\* A sequence of numbers in non-decreasing order.
RECURSIVE SortNums(_)
SortNums(s) ==
    IF Len(s) = 0 THEN <<>>
    ELSE LET i == CHOOSE i \in 1..Len(s) :
                      \A j \in 1..Len(s) : ~RatLess(s[j], s[i])
             rest == [j \in 1..(Len(s) - 1) |-> IF j < i THEN s[j] ELSE s[j + 1]]
         IN  <<s[i]>> \o SortNums(rest)

RECURSIVE SumSeq(_)
SumSeq(s) == IF Len(s) = 0 THEN Num(0) ELSE RatAdd(s[1], SumSeq(Tail(s)))

IndexOf(s, x) == CHOOSE i \in 1..Len(s) : s[i] = x

----------------------------------------------------------------------------
(* Tables *)

Frame(cols, dtype, index, rows) ==
    [kind |-> "frame", cols |-> cols, dtype |-> dtype, index |-> index, rows |-> rows]

NRows(t) == Len(t.rows)

Column(t, c) == [i \in 1..NRows(t) |-> t.rows[i][c]]

\* The non-missing values of a column, in row order.
Present(t, c) ==
    LET pos == Ascending({i \in 1..NRows(t) : ~IsNaN(t.rows[i][c])})
    IN  [j \in 1..Len(pos) |-> t.rows[pos[j]][c]]

\* df[pos]: the rows at the given positions, with their labels.
TakeRows(t, pos) ==
    [t EXCEPT !.index = [j \in 1..Len(pos) |-> t.index[pos[j]]],
              !.rows = [j \in 1..Len(pos) |-> t.rows[pos[j]]]]

\* df.drop(c, axis=1)
DropColumn(t, c) ==
    [t EXCEPT !.cols = t.cols \ {c},
              !.dtype = [x \in t.cols \ {c} |-> t.dtype[x]],
              !.rows = [i \in 1..NRows(t) |-> [x \in t.cols \ {c} |-> t.rows[i][x]]]]

\* df[c] = values (a new or a replaced column of the given dtype)
SetColumn(t, c, dt, values) ==
    [t EXCEPT !.cols = t.cols \cup {c},
              !.dtype = [x \in t.cols \cup {c} |-> IF x = c THEN dt ELSE t.dtype[x]],
              !.rows = [i \in 1..NRows(t) |->
                           [x \in t.cols \cup {c} |->
                               IF x = c THEN values[i] ELSE t.rows[i][x]]]]

\* The dtype pandas infers for a column of these values.
InferDtype(values) ==
    IF \A i \in 1..Len(values) : values[i].k \in {"num", "nan"}
    THEN "number" ELSE "object"

\* Series.median(): the middle of the sorted non-missing values.
Median(s) ==
    LET v == SortNums(s)
        m == Len(v)
    IN  IF m = 0 THEN NaN
        ELSE IF m % 2 = 1 THEN v[(m + 1) \div 2]
        ELSE RatDivInt(RatAdd(v[m \div 2], v[m \div 2 + 1]), 2)

\* Series.mean(): the mean of the non-missing values.
Mean(s) == IF Len(s) = 0 THEN NaN ELSE RatDivInt(SumSeq(s), Len(s))

----------------------------------------------------------------------------
(* ChurnDataPreprocessor.clean_data *)

\* A drop_duplicates(keep='last'): the last of the equal rows stays.
DropDuplicatesKeepLast(t) ==
    TakeRows(t, Ascending({i \in 1..NRows(t) :
                              \A j \in (i + 1)..NRows(t) : t.rows[j] # t.rows[i]}))

\* df.drop_duplicates(): keep the first of the rows that are equal in every
\* column; the kept rows keep their labels and their order.
DropDuplicates(t) ==
    TakeRows(t, Ascending({i \in 1..NRows(t) :
                              \A j \in 1..(i - 1) : t.rows[j] # t.rows[i]}))

\* A mapping that takes every label other than 'No' for a churn.
MapYesNoLoose(v) ==
    IF v.k = "str" /\ v.s = "No" THEN Num(0)
    ELSE IF v.k = "str" THEN Num(1)
    ELSE NaN

\* Series.map({'Yes': 1, 'No': 0}): a value that is no key becomes missing.
MapYesNo(v) ==
    IF v.k = "str" /\ v.s = "Yes" THEN Num(1)
    ELSE IF v.k = "str" /\ v.s = "No" THEN Num(0)
    ELSE NaN

\* df.loc[:, c] = values: pandas >= 2 writes into the existing column and so
\* keeps an object dtype; an older pandas replaces the column.
LocSetColumn(t, c, values, inplace) ==
    SetColumn(t, c,
              IF inplace /\ t.dtype[c] = "object" THEN "object" ELSE InferDtype(values),
              values)

\* A TotalCharges step that fills the missing entries with 0.
CleanTotalChargesZeroFill(t, inplace) ==
    IF "TotalCharges" \notin t.cols THEN t
    ELSE LET coerced == [i \in 1..NRows(t) |-> ToNumeric(t.rows[i]["TotalCharges"])]
         IN  LocSetColumn(t, "TotalCharges",
                          [i \in 1..NRows(t) |->
                              IF IsNaN(coerced[i]) THEN Num(0) ELSE coerced[i]],
                          inplace)

\* Lines 36-39, TotalCharges: coerce to numbers (a text that does not read as
\* a number becomes missing), fill the missing ones with the median of the rest.
CleanTotalCharges(t, inplace) ==
    IF "TotalCharges" \notin t.cols THEN t
    ELSE LET coerced == [i \in 1..NRows(t) |-> ToNumeric(t.rows[i]["TotalCharges"])]
             t1 == LocSetColumn(t, "TotalCharges", coerced, inplace)
             median_value == Median(Present(t1, "TotalCharges"))
             filled == [i \in 1..NRows(t) |->
                           IF IsNaN(coerced[i]) THEN median_value ELSE coerced[i]]
         IN  LocSetColumn(t1, "TotalCharges", filled, inplace)

clean_data(t, inplace) ==
    LET DropCustomerID(t0) ==
            IF "customerID" \in t0.cols THEN DropColumn(t0, "customerID") ELSE t0
        CleanBinary(t0, inplace0) ==
            IF "Churn" \in t0.cols /\ t0.dtype["Churn"] = "object"
            THEN LocSetColumn(t0, "Churn",
                              [i \in 1..NRows(t0) |-> MapYesNo(t0.rows[i]["Churn"])], inplace0)
            ELSE t0
    IN
    DropCustomerID(CleanBinary(CleanTotalCharges(DropDuplicates(t), inplace), inplace))

----------------------------------------------------------------------------
(* ChurnDataPreprocessor.__init__ *)

NoEncoders == [c \in {} |-> <<>>]

\* A StandardScaler that was constructed and never fitted.
NewScaler ==
    [fitted |-> FALSE, n_samples_seen |-> 0, kind |-> "none", cols |-> {},
     mean |-> [c \in {} |-> NaN], var |-> [c \in {} |-> NaN]]

----------------------------------------------------------------------------
(* ChurnDataPreprocessor.encode_categorical *)

\* LabelEncoder().fit: classes_ is the sorted distinct str(x) of the column.
FitClasses(t, c) == SortTexts({AsStr(t.rows[i][c]) : i \in 1..NRows(t)})

\* LabelEncoder.transform of one seen value: its position in classes_.
CodeOf(classes, v) == IndexOf(classes, AsStr(v)) - 1

\* fit=True: le.fit_transform gives the integer code of every value.
FitTransformCell(classes, v) == Num(CodeOf(classes, v))

\* LabelEncoder.transform([s]): a one-element array with the code of a seen
\* label; an unseen label makes it raise ValueError.
Raised == [k |-> "raise", s |-> "ValueError", n |-> 0, d |-> 1]

LeTransform(classes, v) ==
    LET
        Arr(n) == [k |-> "arr", s |-> "", n |-> n, d |-> 1]
    IN
    IF AsStr(v) \in Range(classes) THEN Arr(CodeOf(classes, v)) ELSE Raised

\* A transform that hands every value to the encoder unguarded.
TransformCellUnguarded(classes, v) == LeTransform(classes, v)

\* fit=False: le.transform([str(x)]) if str(x) in le.classes_ else -1
TransformCell(classes, v) ==
    IF AsStr(v) \in Range(classes) THEN LeTransform(classes, v) ELSE Num(-1)

RECURSIVE EncodeCols(_, _, _, _)
EncodeCols(t, encs, todo, fit) ==
    IF todo = {} THEN [status |-> "ok", df |-> t, label_encoders |-> encs]
    ELSE LET c == CHOOSE x \in todo : TRUE
         IN  IF fit
             THEN LET classes == FitClasses(t, c)
                      codes == [i \in 1..NRows(t) |-> FitTransformCell(classes, t.rows[i][c])]
                  IN  EncodeCols(SetColumn(t, c, "number", codes),
                                 [x \in DOMAIN encs \cup {c} |->
                                     IF x = c THEN classes ELSE encs[x]],
                                 todo \ {c}, fit)
             ELSE IF c \in DOMAIN encs
             THEN LET codes == [i \in 1..NRows(t) |-> TransformCell(encs[c], t.rows[i][c])]
                  IN  IF Raised \in Range(codes)
                      THEN [status |-> "ValueError", df |-> t, label_encoders |-> encs]
                      ELSE EncodeCols(SetColumn(t, c, InferDtype(codes), codes),
                                      encs, todo \ {c}, fit)
             ELSE EncodeCols(t, encs, todo \ {c}, fit)

\* An encode_categorical that fits whatever its fit argument says.
encode_categorical_refitting(t, encs, fit) ==
    EncodeCols(t, encs,
               {c \in t.cols : c # "Churn" /\ (t.dtype[c] = "object" \/ c = "tenure_group")},
               TRUE)

\* Returns the encoded table and the encoders the call leaves behind.
encode_categorical(t, encs, fit) ==
    LET
        \* The columns the loop visits: the object columns, tenure_group also when it
        \* is not of object dtype, and never Churn.
        CategoricalCols(t0) ==
            {c \in t0.cols : c # "Churn" /\ (t0.dtype[c] = "object" \/ c = "tenure_group")}
    IN
                                    EncodeCols(t, encs, CategoricalCols(t), fit)

----------------------------------------------------------------------------
(* ChurnDataPreprocessor.scale_features *)

\* Returns the status, the scaled matrix, the scaler state left behind and the
\* matrix the scaler was handed (scaler_input; empty when it was not reached).
scale_features(X, sc, fit, p2, lenient) ==
    LET
        \* float(x) of a one-element array is its element where the numeric stack
        \* still converts such arrays (a deprecated conversion); elsewhere the cell
        \* stays an array and is no number.
        Unwrap(t, lenient0) ==
            IF ~lenient0 THEN t
            ELSE [t EXCEPT !.rows =
                    [i \in 1..NRows(t) |->
                        [c \in t.cols |->
                            IF t.rows[i][c].k = "arr" THEN Num(t.rows[i][c].n)
                            ELSE t.rows[i][c]]]]

        NumericCell(v) == v.k \in {"num", "nan"}

        AllNumeric(t) == \A i \in 1..NRows(t) : \A c \in t.cols : NumericCell(t.rows[i][c])

        \* What validation of the scaler's input rejects: no row, no column, a cell
        \* that is no number, and in transform a column set other than the fitted one.
        ScalerRejects(t, sc0, fit0) ==
            \/ NRows(t) = 0
            \/ t.cols = {}
            \/ ~AllNumeric(t)
            \/ /\ ~fit0
               /\ \/ Cardinality(t.cols) # Cardinality(sc0.cols)
                  \/ t.kind = "frame" /\ sc0.kind = "frame" /\ t.cols # sc0.cols

        \* StandardScaler.transform
        TransformRows(t, sc0) ==
            LET
                \* One standardised cell, (x - mean) / sqrt(var), kept as the deviation and the
                \* variance it is divided by the root of (a zero variance divides by 1).
                Standardised(x, mean, var) == [dev |-> RatSub(x, mean), var |-> var]
            IN
            [i \in 1..NRows(t) |->
                [c \in t.cols |-> Standardised(t.rows[i][c], sc0.mean[c], sc0.var[c])]]

        \* StandardScaler.fit: per column, the mean and the population variance of
        \* the values it is given (missing values are skipped).
        FitScaler(t) ==
            [fitted |-> TRUE, n_samples_seen |-> NRows(t), kind |-> t.kind, cols |-> t.cols,
             mean |-> [c \in t.cols |-> Mean(Present(t, c))],
             var |-> [c \in t.cols |->
                         LET v == Present(t, c)
                             m == Mean(v)
                         IN  RatSub(Mean([j \in 1..Len(v) |-> RatMul(v[j], v[j])]), RatMul(m, m))]]

        \* The imputation in front of the scaler: np.nan_to_num(X, nan=0) for an
        \* array, X.fillna(X.mean()) for a table (a column mean skips the missing
        \* values and is itself missing when the column has no value).
        FillMissing(t) ==
            [t EXCEPT !.rows =
                [i \in 1..NRows(t) |->
                    [c \in t.cols |->
                        IF ~IsNaN(t.rows[i][c]) THEN t.rows[i][c]
                        ELSE IF t.kind = "array" THEN Num(0)
                        ELSE IF \A j \in 1..NRows(t) : NumericCell(t.rows[j][c])
                             THEN Mean(Present(t, c))
                             ELSE NaN]]]
    IN
    LET t == Unwrap(X, lenient)
        filled == FillMissing(t)
        none == [status |-> "ok", X_scaled |-> <<>>, scaler |-> sc,
                 reached |-> FALSE, scaler_input |-> <<>>]
    IN  IF t.kind = "frame" /\ p2 /\ ~AllNumeric(t)
        THEN [none EXCEPT !.status = "TypeError"]
        ELSE IF fit
        THEN IF ScalerRejects(filled, sc, fit)
             THEN [none EXCEPT !.status = "ValueError", !.scaler = NewScaler,
                               !.reached = TRUE, !.scaler_input = filled.rows]
             ELSE LET fitted == FitScaler(filled)
                  IN  [none EXCEPT !.X_scaled = TransformRows(filled, fitted),
                                   !.scaler = fitted,
                                   !.reached = TRUE, !.scaler_input = filled.rows]
        ELSE IF ~sc.fitted
        THEN [none EXCEPT !.status = "NotFittedError",
                          !.reached = TRUE, !.scaler_input = filled.rows]
        ELSE IF ScalerRejects(filled, sc, fit)
        THEN [none EXCEPT !.status = "ValueError",
                          !.reached = TRUE, !.scaler_input = filled.rows]
        ELSE [none EXCEPT !.X_scaled = TransformRows(filled, sc),
                          !.reached = TRUE, !.scaler_input = filled.rows]

----------------------------------------------------------------------------
(* ChurnDataPreprocessor.preprocess_pipeline *)

\* A pipeline that leaves the target as it was extracted.
AlignTargetSkipped(t, y, X) == y

\* A pipeline that cuts the target to the length of the features by position.
AlignTargetByPosition(t, y, X) == [j \in 1..NRows(X) |-> y[j]]

\* y = y[X.index]: the target entries under the labels the cleaned features kept.
AlignTarget(t, y, X) == [j \in 1..NRows(X) |-> y[IndexOf(t.index, X.index[j])]]

\* A fill with the smallest non-missing target value, however rare.
FillTargetSmallest(y) ==
    LET vals == {y[i] : i \in 1..Len(y)} \ {NaN}
        low == IF vals = {} THEN Num(0)
               ELSE CHOOSE v \in vals : \A w \in vals \ {v} : RatLess(v, w)
    IN  [i \in 1..Len(y) |-> IF IsNaN(y[i]) THEN low ELSE y[i]]

\* Lines 129-131: y.fillna(mode_value) when y.isna().any(), with
\* mode_value = y.mode().iloc[0] if not y.mode().empty else 0: the most
\* frequent non-missing value, the smallest of them on a tie, 0 when there
\* is none.
FillTarget(y) ==
    LET Count(s, v) == Cardinality({i \in 1..Len(s) : s[i] = v})
        \* The order Series.mode() sorts its candidates in.
        ValueLess(a, b) ==
            IF IsNum(a) /\ IsNum(b) THEN RatLess(a, b) ELSE TextLess(AsStr(a), AsStr(b))
        vals == {y[i] : i \in 1..Len(y)} \ {NaN}
        top == {v \in vals : \A w \in vals : Count(y, w) <= Count(y, v)}
        mode_value == IF vals = {} THEN Num(0)
                      ELSE CHOOSE v \in top : \A w \in top \ {v} : ValueLess(v, w)
    IN  IF \E i \in 1..Len(y) : IsNaN(y[i])
        THEN [i \in 1..Len(y) |-> IF IsNaN(y[i]) THEN mode_value ELSE y[i]]
        ELSE y

\* Returns the status; on "ok" the scaled matrix X, the target y (has_y says
\* whether there is one) and X_index, the labels of the rows of X; and in
\* every case the encoders and the scaler the call leaves behind.
preprocess_pipeline(t, target_col, fit, encs, sc, p2, lenient) ==
    LET
        \* int(x): truncation toward zero.
        ToInt(v) == IF v.n >= 0 THEN v.n \div v.d ELSE -((-v.n) \div v.d)

        \* What int(x) accepts: a number, a text that reads as a whole number, a
        \* one-element array.
        IntConvertible(v) ==
            \/ v.k \in {"num", "arr"}
            \/ v.k = "txtnum" /\ v.d = 1
    IN
    LET has_y == target_col \in t.cols
        y0 == IF has_y THEN Column(t, target_col) ELSE <<>>
        X0 == IF has_y THEN DropColumn(t, target_col) ELSE t
        X1 == clean_data(X0, p2)
        y1 == IF has_y THEN FillTarget(AlignTarget(t, y0, X1)) ELSE <<>>
        enc == encode_categorical(X1, encs, fit)
        sca == scale_features(enc.df, sc, fit, p2, lenient)
        fail == [status |-> "ok", has_y |-> has_y, X |-> <<>>, y |-> <<>>,
                 X_index |-> <<>>, label_encoders |-> encs, scaler |-> sc,
                 reached |-> FALSE, scaler_input |-> <<>>]
    IN  IF has_y /\ \E i \in 1..Len(y1) : ~IntConvertible(y1[i])
        THEN [fail EXCEPT !.status = "ValueError"]
        ELSE IF has_y /\ enc.status # "ok"
        THEN [fail EXCEPT !.status = enc.status]
        ELSE IF ~has_y
        THEN \* line 134 reads y.value_counts() outside the "y is not None" block
             [fail EXCEPT !.status = "AttributeError"]
        ELSE [fail EXCEPT !.status = sca.status,
                          !.X = sca.X_scaled,
                          !.y = IF sca.status = "ok"
                                THEN [i \in 1..Len(y1) |-> ToInt(y1[i])] ELSE <<>>,
                          !.X_index = IF sca.status = "ok" THEN X1.index ELSE <<>>,
                          !.label_encoders = enc.label_encoders,
                          !.scaler = sca.scaler,
                          !.reached = sca.reached,
                          !.scaler_input = sca.scaler_input]

----------------------------------------------------------------------------
(* feature_engineering.create_engineered_features *)

service_cols ==
    {"PhoneService", "InternetService", "OnlineSecurity", "OnlineBackup",
     "DeviceProtection", "TechSupport", "StreamingTV", "StreamingMovies"}

tenure_labels == <<"0-1 year", "1-2 years", "2-4 years", "4+ years">>

\* (condition).astype(int)
Flag(b) == IF b THEN Num(1) ELSE Num(0)

\* pd.cut(x, bins, labels): the label of the interval (bins[i], bins[i+1]]
\* that holds x; missing when x is missing or in no interval.
Cut(v, bins, labels) ==
    IF ~IsNum(v) THEN NaN
    ELSE LET hit == {i \in 1..Len(labels) :
                        RatLess(Num(bins[i]), v) /\ ~RatLess(Num(bins[i + 1]), v)}
         IN  IF hit = {} THEN NaN ELSE Str(labels[CHOOSE i \in hit : TRUE])

\* Tenure features whose flags follow the bucket edges: a customer of exactly
\* 12 months still counts as new, one of exactly 48 months as long-term.
TenureFeaturesByBucket(t) ==
    IF "tenure" \notin t.cols THEN t
    ELSE LET t1 == SetColumn(t, "tenure_group", "category",
                       [i \in 1..NRows(t) |->
                           Cut(t.rows[i]["tenure"], <<0, 12, 24, 48, 72>>, tenure_labels)])
             t2 == SetColumn(t1, "is_new_customer", "number",
                       [i \in 1..NRows(t) |->
                           Flag(IsNum(t.rows[i]["tenure"])
                                /\ ~RatLess(Num(12), t.rows[i]["tenure"]))])
         IN  SetColumn(t2, "is_long_term", "number",
                       [i \in 1..NRows(t) |->
                           Flag(IsNum(t.rows[i]["tenure"])
                                /\ ~RatLess(t.rows[i]["tenure"], Num(48)))])

\* Lines 41-56: tenure_group, is_new_customer = (tenure < 12).astype(int),
\* is_long_term = (tenure > 48).astype(int); a comparison with a missing
\* tenure is False.
TenureFeatures(t) ==
    LET tenure_bins == <<0, 12, 24, 48, 72>>
    IN  IF "tenure" \notin t.cols THEN t
        ELSE LET t1 == SetColumn(t, "tenure_group", "category",
                           [i \in 1..NRows(t) |->
                               Cut(t.rows[i]["tenure"], tenure_bins, tenure_labels)])
                 t2 == SetColumn(t1, "is_new_customer", "number",
                           [i \in 1..NRows(t) |->
                               Flag(IsNum(t.rows[i]["tenure"])
                                    /\ RatLess(t.rows[i]["tenure"], Num(12)))])
             IN  SetColumn(t2, "is_long_term", "number",
                           [i \in 1..NRows(t) |->
                               Flag(IsNum(t.rows[i]["tenure"])
                                    /\ RatLess(Num(48), t.rows[i]["tenure"]))])

\* A denominator without the + 1.
ChargeDenominatorBare(row) == RatMul(row["MonthlyCharges"], row["tenure"])

\* Lines 74-76: the denominator of charge_ratio, MonthlyCharges * tenure + 1.
ChargeDenominator(row) ==
    RatAdd(RatMul(row["MonthlyCharges"], row["tenure"]), Num(1))

ValidateNumerics(t, fill_lands) ==
    LET
        \* Lines 24-38: an object column among the numeric ones is coerced to
        \* numbers; Series.fillna(median, inplace=True) on df[col] reaches the table
        \* only where the column selection is not a copy (fill_lands).
        ValidateNumeric(t0, c, fill_lands0) ==
            IF c \notin t0.cols \/ t0.dtype[c] # "object" THEN t0
            ELSE LET coerced == [i \in 1..NRows(t0) |-> ToNumeric(t0.rows[i][c])]
                     t1 == SetColumn(t0, c, "number", coerced)
                     fill_value == Median(Present(t1, c))
                 IN  IF fill_lands0
                     THEN SetColumn(t0, c, "number",
                                    [i \in 1..NRows(t0) |->
                                        IF IsNaN(coerced[i]) THEN fill_value ELSE coerced[i]])
                     ELSE t1
    IN
    ValidateNumeric(ValidateNumeric(ValidateNumeric(t, "TotalCharges", fill_lands),
                                    "MonthlyCharges", fill_lands),
                    "tenure", fill_lands)

\* Returns the status and, on "ok", the engineered copy of the table.
create_engineered_features(t, fill_lands) ==
    LET
        IsYes(v) == v = Str("Yes")

        \* Lines 104-109
        FamilyFeatures(t0) ==
            IF ~({"SeniorCitizen", "Partner", "Dependents"} \subseteq t0.cols) THEN t0
            ELSE SetColumn(t0, "family_size", "number",
                     [i \in 1..NRows(t0) |->
                         RatAdd(Flag(IsYes(t0.rows[i]["Partner"])),
                                Flag(IsYes(t0.rows[i]["Dependents"])))])

        \* Lines 93-101
        ContractFeatures(t0) ==
            LET t1 == IF "Contract" \notin t0.cols THEN t0
                      ELSE SetColumn(t0, "is_monthly_contract", "number",
                               [i \in 1..NRows(t0) |->
                                   Flag(t0.rows[i]["Contract"] = Str("Month-to-month"))])
            IN  IF "PaperlessBilling" \notin t0.cols THEN t1
                ELSE SetColumn(t1, "paperless_billing_binary", "number",
                         [i \in 1..NRows(t0) |-> Flag(IsYes(t0.rows[i]["PaperlessBilling"]))])

        \* Lines 84-89
        ServiceFeatures(t0) ==
            LET available_services == service_cols \cap t0.cols
            IN  IF available_services = {} THEN t0
                ELSE SetColumn(t0, "num_services", "number",
                         [i \in 1..NRows(t0) |->
                             Num(Cardinality({c \in available_services : IsYes(t0.rows[i][c])}))])

        \* Line 72: the guard of charge_ratio names TotalCharges and MonthlyCharges.
        ChargeRatioGuard(t0) == {"TotalCharges", "MonthlyCharges"} \subseteq t0.cols

        \* Lines 74-76: the formula reads TotalCharges, MonthlyCharges and tenure;
        \* df_engineered['tenure'] raises KeyError when the column is absent.
        ChargeRatioRaises(t0) == ChargeRatioGuard(t0) /\ "tenure" \notin t0.cols

        ChargeRatio(t0) ==
            LET
                RatDiv(a, b) ==
                    LET
                        \* The quotient of two floats: x / 0 is an infinity (or missing for 0 / 0),
                        \* no exception.
                        Inf == [k |-> "inf", s |-> "", n |-> 0, d |-> 1]
                    IN
                    IF IsNaN(a) \/ IsNaN(b) THEN NaN
                    ELSE IF b.n = 0 THEN (IF a.n = 0 THEN NaN ELSE Inf)
                    ELSE IF b.n > 0 THEN Rat(a.n * b.d, a.d * b.n)
                    ELSE Rat(-(a.n * b.d), a.d * (-b.n))
            IN
            IF ~ChargeRatioGuard(t0) \/ ChargeRatioRaises(t0) THEN t0
            ELSE SetColumn(t0, "charge_ratio", "number",
                     [i \in 1..NRows(t0) |->
                         RatDiv(t0.rows[i]["TotalCharges"], ChargeDenominator(t0.rows[i]))])

        \* Lines 59-70
        ChargeFeatures(t0) ==
            LET charge_labels == <<"Low", "Medium", "High">>
                charge_bins == <<0, 35, 70, 120>>
            IN
            IF ~({"MonthlyCharges", "tenure"} \subseteq t0.cols) THEN t0
            ELSE LET t1 == SetColumn(t0, "total_revenue", "number",
                               [i \in 1..NRows(t0) |->
                                   RatMul(t0.rows[i]["MonthlyCharges"], t0.rows[i]["tenure"])])
                 IN  SetColumn(t1, "charge_category", "category",
                               [i \in 1..NRows(t0) |->
                                   Cut(t0.rows[i]["MonthlyCharges"], charge_bins, charge_labels)])

    IN
    LET v == ValidateNumerics(t, fill_lands)
        c == ChargeFeatures(TenureFeatures(v))
    IN  IF ChargeRatioRaises(c)
        THEN [status |-> "KeyError", df |-> t]
        ELSE [status |-> "ok",
              df |-> FamilyFeatures(ContractFeatures(ServiceFeatures(ChargeRatio(c))))]

----------------------------------------------------------------------------
(* feature_engineering.encode_categorical_variables *)

\* Lines 124-147, on a copy of the table: every object column other than
\* Churn is label-encoded when nunique() (the distinct values, the missing
\* ones not counted) is 2, else replaced by pd.get_dummies(columns=[col],
\* prefix=col, drop_first=True): one indicator column col_level for each
\* level but the first of the sorted non-missing levels (bool from pandas 2
\* on, uint8 before), all of them 0 in a row whose value is missing.  The
\* LabelEncoder is a local of the loop body.  The categories of the model's
\* tables are texts.
encode_categorical_variables(t, p2) ==
    LET Indicator(b) ==
            IF p2 THEN [k |-> "bool", s |-> "", n |-> IF b THEN 1 ELSE 0, d |-> 1]
            ELSE Num(IF b THEN 1 ELSE 0)
        DummyName(c, level) == c \o "_" \o level.s
        GetDummies(t0, c, levels) ==
            LET kept == {levels[k] : k \in 2..Len(levels)}
                names == {DummyName(c, level) : level \in kept}
                cols == (t0.cols \ {c}) \cup names
                LevelOf(x) == CHOOSE level \in kept : DummyName(c, level) = x
            IN  [t0 EXCEPT
                    !.cols = cols,
                    !.dtype = [x \in cols |->
                                  IF x \in names
                                  THEN (IF p2 THEN "bool" ELSE "number")
                                  ELSE t0.dtype[x]],
                    !.rows = [i \in 1..NRows(t0) |->
                                 [x \in cols |->
                                     IF x \in names
                                     THEN Indicator(t0.rows[i][c] = LevelOf(x))
                                     ELSE t0.rows[i][x]]]]
        RECURSIVE EncodeVariables(_, _)
        EncodeVariables(t0, todo) ==
            IF todo = {} THEN t0
            ELSE LET c == CHOOSE x \in todo : TRUE
                     levels == SortTexts({t0.rows[i][c] : i \in 1..NRows(t0)} \ {NaN})
                     unique_values == Len(levels)
                     classes == FitClasses(t0, c)
                 IN  EncodeVariables(
                         IF unique_values = 2
                         THEN SetColumn(t0, c, "number",
                                  [i \in 1..NRows(t0) |->
                                      FitTransformCell(classes, t0.rows[i][c])])
                         ELSE GetDummies(t0, c, levels),
                         todo \ {c})
    IN  EncodeVariables(t, {c \in t.cols : t.dtype[c] = "object" /\ c # "Churn"})

----------------------------------------------------------------------------
(* The input tables of the model *)

\* All sequences of 0..n members of S.
SeqsUpTo(S, n) == UNION {[1..m -> S] : m \in 0..n}

\* pd.read_csv gives the rows the labels 0, 1, 2, ...
RangeIndex(n) == [i \in 1..n |-> i - 1]

Categories == {Str("A"), Str("B"), Str("C"), Str("D")}

BinaryNumbers == {Num(0), Num(1), NaN}

----------------------------------------------------------------------------
(* State and operations *)

NoTable == Frame({}, [c \in {} |-> "object"], <<>>, <<>>)

NoSplit == [test |-> {}, train |-> {}]

\* ChurnModelTrainer.__init__: self.models = {}
NoModels == [n \in {} |-> [type |-> "", stored_by |-> "", fitted_on |-> <<>>]]

\* The content of a path that holds no file.
NoFile == [kind |-> "none", model |-> [type |-> "", stored_by |-> "", fitted_on |-> <<>>],
           metadata |-> [present |-> FALSE, model_name |-> "", model_type |-> "",
                         saved_at |-> "", version |-> ""],
           table |-> [cols |-> {}, rows |-> <<>>]]

\* A file system with no directory and no file: the directories that exist,
\* the locations where none can be created, and the files as path -> content.
NoFileSystem == [dirs |-> {}, locked |-> {}, files |-> [p \in {} |-> NoFile]]

\* No data set handed to the trainer yet.
NoData == [X |-> <<>>, y |-> <<>>, T |-> {}]

\* The record of the last trainer, persistence or evaluation call: the
\* operation, its arguments (for evaluate_model the lengths of X_test and
\* y_test and the steps that fail), the steps it took in order, what it
\* logged, the files it wrote and what it returned or raised.
NoCall ==
    [op |-> "none", status |-> "ok", name |-> "", path |-> [parent |-> "", name |-> <<>>],
     balance_data |-> FALSE, smote_raised |-> FALSE, n_X |-> 0, n_y |-> 0,
     faults |-> {}, steps |-> <<>>,
     logged |-> {}, written |-> {}, ret |-> [kind |-> "None"]]

\* The record of the last call: the operation, its fit argument, the table
\* it was given (input) and that same table object as the call leaves it
\* (arg), whether a fit pass had run before it, and its outcome.
NoRes ==
    [op |-> "none", fit |-> FALSE, input |-> NoTable, arg |-> NoTable, prefit |-> FALSE,
     status |-> "ok", has_y |-> FALSE, X |-> <<>>, y |-> <<>>, X_index |-> <<>>,
     reached |-> FALSE, scaler_input |-> <<>>, out |-> NoTable]

InitWith(tables) ==
    /\ pandas2 \in BOOLEAN
    /\ df \in tables
    /\ label_encoders = NoEncoders
    /\ scaler = NewScaler
    /\ fit_pass = FALSE
    /\ res = NoRes
    /\ pc = "api"
    /\ split = NoSplit
    /\ models = NoModels
    /\ fs = NoFileSystem
    /\ data = NoData
    /\ call = NoCall

\* df = preprocessor.clean_data(df)
CleanData ==
    /\ pc = "api"
    /\ df' = clean_data(df, pandas2)
    /\ res' = [NoRes EXCEPT !.op = "clean_data", !.input = df, !.prefit = fit_pass,
                            !.arg = df, !.out = df']
    /\ UNCHANGED <<pandas2, label_encoders, scaler, fit_pass, pc, split>>
    /\ UNCHANGED trainer_vars

\* preprocessor.preprocess_pipeline(df, target_col='Churn', fit=fit)
PreprocessPipeline(fit) ==
    /\ pc = "api"
    /\ \E lenient \in BOOLEAN :
       \E r \in {preprocess_pipeline(df, "Churn", fit, label_encoders, scaler,
                                    pandas2, lenient)} :
           /\ res' = [NoRes EXCEPT !.op = "preprocess_pipeline", !.fit = fit,
                                   !.input = df, !.arg = df, !.prefit = fit_pass,
                                   !.status = r.status, !.has_y = r.has_y,
                                   !.X = r.X, !.y = r.y, !.X_index = r.X_index,
                                   !.reached = r.reached,
                                   !.scaler_input = r.scaler_input]
           /\ label_encoders' = r.label_encoders
           /\ scaler' = r.scaler
    /\ fit_pass' = (fit_pass \/ fit)
    /\ UNCHANGED <<pandas2, df, pc, split>>
    /\ UNCHANGED trainer_vars

\* preprocessor.encode_categorical(df, fit=fit): the columns are assigned in
\* the table that was passed.
EncodeCategorical(fit) ==
    /\ pc = "api"
    /\ \E r \in {encode_categorical(df, label_encoders, fit)} :
           /\ res' = [NoRes EXCEPT !.op = "encode_categorical", !.fit = fit,
                                   !.input = df, !.prefit = fit_pass,
                                   !.arg = r.df,
                                   !.status = r.status, !.out = r.df]
           /\ df' = r.df
           /\ label_encoders' = r.label_encoders
    /\ fit_pass' = (fit_pass \/ fit)
    /\ UNCHANGED <<pandas2, scaler, pc, split>>
    /\ UNCHANGED trainer_vars

\* preprocessor.scale_features(df, fit=fit)
ScaleFeatures(fit) ==
    /\ pc = "api"
    /\ \E lenient \in BOOLEAN :
       \E r \in {scale_features(df, scaler, fit, pandas2, lenient)} :
           /\ res' = [NoRes EXCEPT !.op = "scale_features", !.fit = fit,
                                   !.input = df, !.arg = df, !.prefit = fit_pass,
                                   !.status = r.status, !.X = r.X_scaled,
                                   !.reached = r.reached,
                                   !.scaler_input = r.scaler_input]
           /\ scaler' = r.scaler
    /\ fit_pass' = (fit_pass \/ fit)
    /\ UNCHANGED <<pandas2, df, label_encoders, pc, split>>
    /\ UNCHANGED trainer_vars

\* df_encoded = encode_categorical_variables(df)
EncodeCategoricalVariables ==
    /\ pc = "api"
    /\ df' = encode_categorical_variables(df, pandas2)
    /\ res' = [NoRes EXCEPT !.op = "encode_categorical_variables", !.fit = TRUE,
                            !.input = df, !.arg = df, !.prefit = fit_pass, !.out = df']
    /\ UNCHANGED <<pandas2, label_encoders, scaler, fit_pass, pc, split>>
    /\ UNCHANGED trainer_vars

\* The caller turns to another table (new data for the same preprocessor).
LoadData(tables) ==
    /\ pc = "api"
    /\ df' \in tables
    /\ res' = NoRes
    /\ UNCHANGED <<pandas2, label_encoders, scaler, fit_pass, pc, split>>
    /\ UNCHANGED trainer_vars

\* df = create_engineered_features(df)
CreateEngineeredFeatures ==
    /\ pc = "api"
    /\ \E fill_lands \in BOOLEAN :
       \E r \in {create_engineered_features(df, fill_lands)} :
           /\ res' = [NoRes EXCEPT !.op = "create_engineered_features",
                                   !.input = df, !.arg = df, !.prefit = fit_pass,
                                   !.status = r.status, !.out = r.df]
           /\ df' = r.df
    /\ UNCHANGED <<pandas2, label_encoders, scaler, fit_pass, pc, split>>
    /\ UNCHANGED trainer_vars

InitPipe ==
    LET
        \* Tables with the text column gender and the target Churn, the target either
        \* text labels or numbers, and tables with no target column.
        PipeTables ==
            LET
                TextLabels == {Str("Yes"), Str("No"), Str("Maybe")}
            IN
            LET gender == {Str("A"), Str("B")}
                mk(cols, dtype, rows) == Frame(cols, dtype, RangeIndex(Len(rows)), rows)
            IN  {mk({"gender", "Churn"}, [c \in {"gender", "Churn"} |-> "object"], rows) :
                    rows \in SeqsUpTo([gender : gender, Churn : TextLabels], MaxRows)}
                \cup
                {mk({"gender", "Churn"},
                    [c \in {"gender", "Churn"} |-> IF c = "gender" THEN "object" ELSE "number"],
                    rows) :
                    rows \in SeqsUpTo([gender : gender, Churn : BinaryNumbers], MaxRows)}
                \cup
                {mk({"gender"}, [c \in {"gender"} |-> "object"], rows) :
                    rows \in SeqsUpTo([gender : gender], MaxRows)}
                \cup
                \* Up to four customers with distinct features (none is dropped as a
                \* duplicate) and a numeric target.
                {mk({"gender", "Churn"},
                    [c \in {"gender", "Churn"} |-> IF c = "gender" THEN "object" ELSE "number"],
                    [i \in 1..Len(churn) |->
                        [gender |-> <<Str("A"), Str("B"), Str("C"), Str("D")>>[i],
                         Churn |-> churn[i]]]) :
                    churn \in SeqsUpTo(BinaryNumbers, 4)}
                \cup
                \* Tables of TotalCharges as read from a CSV with blank fields: texts that
                \* read as numbers, a blank text, a missing field.
                {mk({"TotalCharges"}, [c \in {"TotalCharges"} |-> "object"], rows) :
                    rows \in SeqsUpTo([TotalCharges : {TxtNum(10), TxtNum(30), Str(" "), NaN}],
                                      MaxRows)}
                \cup
                {mk({"customerID", "gender"},
                    [c \in {"customerID", "gender"} |-> "object"], rows) :
                    rows \in SeqsUpTo([customerID : gender, gender : gender], MaxRows)}
    IN
            InitWith(PipeTables)

NextPipe == CleanData \/ \E fit \in BOOLEAN : PreprocessPipeline(fit)

SpecPipe == InitPipe /\ [][NextPipe]_vars

\* Tables with the one text column gender.
EncTables ==
    {Frame({"gender"}, [c \in {"gender"} |-> "object"], RangeIndex(Len(rows)), rows) :
        rows \in SeqsUpTo([gender : Categories], MaxRows)}

InitEnc == InitWith(EncTables)

NextEnc ==
    \/ \E fit \in BOOLEAN : EncodeCategorical(fit)
    \/ LoadData(EncTables)

SpecEnc == InitEnc /\ [][NextEnc]_vars

InitScale ==
    LET
        \* Numeric inputs of scale_features: tables and arrays of two columns whose
        \* cells are 0, 1 or missing.
        ScaleTables ==
            LET cols == {"SeniorCitizen", "tenure"}
            IN  {[kind |-> kind, cols |-> cols, dtype |-> [c \in cols |-> "number"],
                  index |-> RangeIndex(Len(rows)), rows |-> rows] :
                    kind \in {"frame", "array"},
                    rows \in SeqsUpTo([cols -> BinaryNumbers], MaxScaleRows)}
    IN
             InitWith(ScaleTables)

NextScale == \E fit \in BOOLEAN : ScaleFeatures(fit)

SpecScale == InitScale /\ [][NextScale]_vars

\* The tables of the fit and transform passes: a text column gender of up to
\* three categories with missing entries, alone or (the shorter tables) next
\* to a numeric target.
LifeTables(n) ==
    LET mk(cols, dtype, rows) == Frame(cols, dtype, RangeIndex(Len(rows)), rows)
        gender == {Str("A"), Str("B"), Str("C"), NaN}
    IN  {mk({"gender"}, [c \in {"gender"} |-> "object"], rows) :
            rows \in SeqsUpTo([gender : gender], n)}
        \cup
        {mk({"gender", "Churn"},
            [c \in {"gender", "Churn"} |-> IF c = "gender" THEN "object" ELSE "number"],
            rows) :
            rows \in SeqsUpTo([gender : {Str("A"), Str("B")}, Churn : {Num(0), Num(1)}],
                              IF n < MaxScaleRows THEN n ELSE MaxScaleRows)}

InitLife == InitWith(LifeTables(MaxRows))

\* Every encoding and scaling call in either mode, on the first table or on
\* new data.
NextLife ==
    \/ \E fit \in BOOLEAN : EncodeCategorical(fit)
    \/ \E fit \in BOOLEAN : ScaleFeatures(fit)
    \/ \E fit \in BOOLEAN : PreprocessPipeline(fit)
    \/ EncodeCategoricalVariables
    \/ LoadData(LifeTables(1))

SpecLife == InitLife /\ [][NextLife]_vars

\* The columns create_engineered_features recognises.
RecognisedCols ==
    LET
        numeric_columns == {"TotalCharges", "MonthlyCharges", "tenure"}
    IN
    numeric_columns \cup service_cols
        \cup {"Contract", "PaperlessBilling", "SeniorCitizen", "Partner", "Dependents"}

InitFE ==
    LET
        \* Tables with any subset of the recognised columns other than the service
        \* columns, up to MaxServices of the service columns, and 1..MaxCustomers rows.
        FETables ==
            LET
                \* Two customers: values for every recognised column.
                Customer(which) ==
                    [c \in RecognisedCols |->
                        IF which = 1
                        THEN CASE c = "tenure" -> Num(5)
                               [] c = "MonthlyCharges" -> Num(50)
                               [] c = "TotalCharges" -> TxtNum(250)
                               [] c = "SeniorCitizen" -> Num(0)
                               [] c = "Contract" -> Str("Month-to-month")
                               [] OTHER -> Str("Yes")
                        ELSE CASE c = "tenure" -> Num(0)
                               [] c = "MonthlyCharges" -> Num(20)
                               [] c = "TotalCharges" -> Str(" ")
                               [] c = "SeniorCitizen" -> Num(1)
                               [] c = "Contract" -> Str("One year")
                               [] c = "InternetService" -> Str("DSL")
                               [] OTHER -> Str("No")]
            IN
            {Frame(cols,
                   [c \in cols |-> IF c \in {"tenure", "MonthlyCharges", "SeniorCitizen"}
                                   THEN "number" ELSE "object"],
                   RangeIndex(Len(who)),
                   [i \in 1..Len(who) |-> [c \in cols |-> Customer(who[i])[c]]]) :
                cols \in {core \cup services :
                             core \in SUBSET (RecognisedCols \ service_cols),
                             services \in {x \in SUBSET service_cols :
                                              Cardinality(x) <= MaxServices}},
                who \in SeqsUpTo({1, 2}, MaxCustomers) \ {<<>>}}

        \* Tables of the charge columns alone: tenure on, next to and away from the
        \* bucket edges, negative and missing; MonthlyCharges zero, positive,
        \* negative and missing.
        ChargeTables ==
            LET tenures == {Num(-1), Num(0), Num(1), Num(5), Num(12), Num(13), Num(24),
                            Num(48), Num(49), Num(72), NaN}
                charges == {Num(-1), Num(0), Num(50), NaN}
                customers == [tenure : tenures, MonthlyCharges : charges,
                              TotalCharges : {Num(250)}]
            IN  {Frame(cols, [c \in cols |-> "number"], RangeIndex(Len(rows)),
                       [i \in 1..Len(rows) |-> [c \in cols |-> rows[i][c]]]) :
                    cols \in {{"tenure", "MonthlyCharges"},
                              {"tenure", "MonthlyCharges", "TotalCharges"}},
                    rows \in SeqsUpTo(customers, MaxCustomers) \ {<<>>}}
    IN
          InitWith(FETables \cup ChargeTables)

NextFE == CreateEngineeredFeatures

SpecFE == InitFE /\ [][NextFE]_vars

----------------------------------------------------------------------------
(* scripts/run_analysis.py main(), steps 1 to 4 and the split *)

\* ceil(a / b) and floor(a / b) for a >= 0, b > 0
CeilDiv(a, b) == (a + b - 1) \div b

FloorDiv(a, b) == a \div b

\* test_size=0.2 as the fraction TestNum / TestDen
TestNum == 1

TestDen == 5

\* train_test_split: n_test = ceil(0.2 * n), n_train = n - n_test.
NTest(n) == CeilDiv(TestNum * n, TestDen)

ClassCount(y, k) == Cardinality({i \in 1..Len(y) : y[i] = k})

\* What train_test_split(..., stratify=y) rejects with ValueError: an empty
\* train set, a class with fewer than two members, fewer train or test rows
\* than classes.
SplitRejects(y) ==
    LET
        NTrain(n) == n - NTest(n)
    IN
    LET n == Len(y)
        classes == Range(y)
    IN  \/ n = 0
        \/ NTrain(n) = 0
        \/ \E k \in classes : ClassCount(y, k) < 2
        \/ NTrain(n) < Cardinality(classes)
        \/ NTest(n) < Cardinality(classes)

\* The subsets of S that have k members.
RECURSIVE KSubsets(_, _)
KSubsets(S, k) ==
    IF k = 0 THEN {{}}
    ELSE IF Cardinality(S) < k THEN {}
    ELSE LET x == CHOOSE e \in S : TRUE
         IN  KSubsets(S \ {x}, k) \cup {A \cup {x} : A \in KSubsets(S \ {x}, k - 1)}

\* The ways to take `need` test positions from the classes in todo, each
\* class represented in proportion (rounded down or up).
RECURSIVE StratifiedPicks(_, _, _)
StratifiedPicks(y, todo, need) ==
    IF todo = {} THEN (IF need = 0 THEN {{}} ELSE {})
    ELSE LET k == CHOOSE c \in todo : TRUE
             n == Len(y)
             members == {i \in 1..n : y[i] = k}
             lo == FloorDiv(ClassCount(y, k) * NTest(n), n)
             hi == CeilDiv(ClassCount(y, k) * NTest(n), n)
         IN  UNION {{A \cup B : A \in KSubsets(members, c),
                                B \in StratifiedPicks(y, todo \ {k}, need - c)} :
                       c \in {d \in lo..hi : d <= need}}

\* The test partitions a stratified shuffle split can produce, as sets of
\* positions: NTest rows, each class represented in proportion (rounded down
\* or up).
StratifiedTests(y) == StratifiedPicks(y, Range(y), NTest(Len(y)))

----------------------------------------------------------------------------
\* src/model_training.py: ChurnModelTrainer.  A feature matrix is the
\* sequence of its rows; a row is known by where it came from: the id of an
\* input row, or the input rows a synthetic row was interpolated from.

Row(i) == [id |-> i, synthetic |-> FALSE, from |-> {}]

Synthetic(parents) == [id |-> 0, synthetic |-> TRUE, from |-> parents]

Repeat(x, n) == [i \in 1..n |-> x]

\* X[positions]: the rows at the given positions, in order.
Take(s, keep) == [j \in 1..Cardinality(keep) |-> s[Ascending(keep)[j]]]

Ids(X) == {X[i].id : i \in {j \in 1..Len(X) : ~X[j].synthetic}}

\* SMOTE() looks at k_neighbors = 5 neighbours of each minority sample.
k_neighbors == 5

MajorityCount(y) ==
    CHOOSE m \in {ClassCount(y, k) : k \in Range(y)} :
        \A k \in Range(y) : ClassCount(y, k) <= m

\* SMOTE.fit_resample raises ValueError for a target with fewer than two
\* classes, and when a class it has to oversample has no more than
\* k_neighbors samples (n_neighbors = k_neighbors + 1 > n_samples_fit).
SmoteRaises(y) ==
    \/ Cardinality(Range(y)) < 2
    \/ \E k \in Range(y) :
          ClassCount(y, k) < MajorityCount(y) /\ ClassCount(y, k) <= k_neighbors

\* SMOTE.fit_resample: the given samples, followed for every class smaller
\* than the majority class by as many synthetic samples as it lacks, each
\* interpolated between samples of that class.
RECURSIVE Oversample(_, _, _, _)
Oversample(X, y, todo, out) ==
    IF todo = <<>> THEN out
    ELSE LET k == Head(todo)
             lacks == MajorityCount(y) - ClassCount(y, k)
             own == {X[i].id : i \in {j \in 1..Len(y) : y[j] = k}}
         IN  Oversample(X, y, Tail(todo),
                        [X |-> out.X \o Repeat(Synthetic(own), lacks),
                         y |-> out.y \o Repeat(k, lacks)])

fit_resample(X, y) == Oversample(X, y, Ascending(Range(y)), [X |-> X, y |-> y])

\* A handle_imbalance without the try/except: the failure of SMOTE leaves
\* the method as an exception.
handle_imbalance_unguarded(X_train, y_train, method) ==
    IF method = "smote" /\ SmoteRaises(y_train)
    THEN [status |-> "ValueError", X |-> <<>>, y |-> <<>>, logged |-> {},
          raised |-> TRUE]
    ELSE IF method # "smote"
    THEN [status |-> "ok", X |-> X_train, y |-> y_train, logged |-> {},
          raised |-> FALSE]
    ELSE [status |-> "ok", X |-> fit_resample(X_train, y_train).X,
          y |-> fit_resample(X_train, y_train).y, logged |-> {"info"},
          raised |-> FALSE]

\* handle_imbalance (lines 61-82): missing values are filled (row values),
\* then SMOTE; a failure of SMOTE is logged and the given data returned.
handle_imbalance(X_train, y_train, method) ==
    IF method # "smote"
    THEN [status |-> "ok", X |-> X_train, y |-> y_train, logged |-> {},
          raised |-> FALSE]
    ELSE IF SmoteRaises(y_train)
    THEN [status |-> "ok", X |-> X_train, y |-> y_train,
          logged |-> {"error", "warning"}, raised |-> TRUE]
    ELSE LET r == fit_resample(X_train, y_train)
         IN  [status |-> "ok", X |-> r.X, y |-> r.y, logged |-> {"info"},
              raised |-> FALSE]

\* The method that stores a model under the name.
TrainMethod(name) ==
    CASE name = "Random Forest" -> "train_random_forest"
      [] name = "Logistic Regression" -> "train_logistic_regression"
      [] name = "Gradient Boosting" -> "train_gradient_boosting"

\* train_random_forest / train_logistic_regression / train_gradient_boosting:
\* fit, then self.models[name] = model.
TrainModel(ms, name, X, y) ==
    LET
        \* type(model).__name__ of the model each train_* method builds.
        ModelType(name0) ==
            CASE name0 = "Random Forest" -> "RandomForestClassifier"
              [] name0 = "Logistic Regression" -> "LogisticRegression"
              [] name0 = "Gradient Boosting" -> "GradientBoostingClassifier"

        \* model.fit(X_train, y_train): a forest accepts any non-empty data,
        \* logistic regression and gradient boosting need two classes.
        FitRaises(name0, y0) ==
            IF name0 = "Random Forest" THEN Len(y0) = 0 ELSE Cardinality(Range(y0)) < 2
    IN
    IF FitRaises(name, y) THEN [status |-> "ValueError", models |-> ms]
    ELSE [status |-> "ok",
          models |-> [n \in DOMAIN ms \cup {name} |->
                         IF n = name
                         THEN [type |-> ModelType(name), stored_by |-> TrainMethod(name),
                               fitted_on |-> X]
                         ELSE ms[n]]]

model_names == <<"Random Forest", "Logistic Regression", "Gradient Boosting">>

\* Lines 150-152: the three train_* calls in order; the first that raises
\* ends train_all_models.
RECURSIVE TrainInOrder(_, _, _, _, _)
TrainInOrder(ms, todo, X, y, steps) ==
    IF todo = <<>> THEN [status |-> "ok", models |-> ms, steps |-> steps]
    ELSE LET r == TrainModel(ms, Head(todo), X, y)
         IN  IF r.status # "ok"
             THEN [status |-> r.status, models |-> ms, steps |-> steps]
             ELSE TrainInOrder(r.models, Tail(todo), X, y,
                               Append(steps, [step |-> "fit", name |-> Head(todo),
                                              rows |-> X, labels |-> y,
                                              out |-> <<>>, out_labels |-> <<>>]))

\* The data balancing and fitting work on when everything is given to them:
\* the rows of both partitions.
TrainPartitionWhole(X, y, sp) == [X |-> X, y |-> y]

\* Lines 145-147: X_train, y_train as prepare_data returned them.
TrainPartition(X, y, sp) == [X |-> sp.X_train, y |-> sp.y_train]

\* train_all_models (lines 132-155): prepare_data, handle_imbalance when
\* balance_data, the three fits, then return X_train, X_test, y_train, y_test.
train_all_models(ms, X, y, balance_data, T) ==
    LET
        \* prepare_data (lines 31-58): a stratified split; the scaler is fitted on the
        \* train rows and applied to both parts (row values change, rows do not).
        \* T is the set of test positions the seeded shuffle selects.
        prepare_data(X0, y0, T0) ==
            IF SplitRejects(y0)
            THEN [status |-> "ValueError", X_train |-> <<>>, X_test |-> <<>>,
                  y_train |-> <<>>, y_test |-> <<>>]
            ELSE LET rest == (1..Len(y0)) \ T0
                 IN  [status |-> "ok",
                      X_train |-> Take(X0, rest), X_test |-> Take(X0, T0),
                      y_train |-> Take(y0, rest), y_test |-> Take(y0, T0)]
    IN
    LET sp == prepare_data(X, y, T)
        part == TrainPartition(X, y, sp)
        bal == IF balance_data THEN handle_imbalance(part.X, part.y, "smote")
               ELSE [status |-> "ok", X |-> part.X, y |-> part.y, logged |-> {},
                     raised |-> FALSE]
        split_step == <<[step |-> "split", name |-> "",
                         rows |-> sp.X_train, labels |-> sp.y_train,
                         out |-> sp.X_test, out_labels |-> sp.y_test]>>
        steps == IF balance_data
                 THEN Append(split_step, [step |-> "balance", name |-> "smote",
                                          rows |-> part.X, labels |-> part.y,
                                          out |-> bal.X, out_labels |-> bal.y])
                 ELSE split_step
        fits == TrainInOrder(ms, model_names, bal.X, bal.y, steps)
    IN  IF sp.status # "ok"
        THEN [status |-> sp.status, models |-> ms, steps |-> <<>>, logged |-> {},
              smote_raised |-> FALSE, ret |-> [kind |-> "None"]]
        ELSE IF bal.status # "ok"
        THEN [status |-> bal.status, models |-> ms, steps |-> steps,
              logged |-> bal.logged, smote_raised |-> bal.raised,
              ret |-> [kind |-> "None"]]
        ELSE IF fits.status # "ok"
        THEN [status |-> fits.status, models |-> fits.models, steps |-> fits.steps,
              logged |-> bal.logged, smote_raised |-> bal.raised,
              ret |-> [kind |-> "None"]]
        ELSE [status |-> "ok", models |-> fits.models, steps |-> fits.steps,
              logged |-> bal.logged, smote_raised |-> bal.raised,
              ret |-> [kind |-> "tuple", X_train |-> bal.X, X_test |-> sp.X_test,
                       y_train |-> bal.y, y_test |-> sp.y_test]]

----------------------------------------------------------------------------
\* Persistence: ChurnModelTrainer.save_model / load_model and
\* utils.save_dataframe / load_dataframe.  A path is its parent directory
\* and its file name; the name is kept as the texts between its dots
\* ("model.tar.gz" is <<"model", "tar", "gz">>, ".pkl" is <<"", "pkl">>).

PathOf(parent, name) == [parent |-> parent, name |-> name]

\* PurePath.suffix: the text after the last dot of the name, when that dot
\* is neither the first nor the last character of the name.
HasSuffix(name) ==
    /\ Len(name) >= 2
    /\ name[Len(name)] # ""
    /\ (Len(name) > 2 \/ name[1] # "")

Suffix(name) == IF HasSuffix(name) THEN name[Len(name)] ELSE ""

\* PurePath.stem: the name without its suffix.
Stem(name) == IF HasSuffix(name) THEN SubSeq(name, 1, Len(name) - 1) ELSE name

\* str.lower() on the suffixes of the model.
Lower(text) ==
    CASE text = "PKL" -> "pkl"
      [] text = "Pkl" -> "pkl"
      [] text = "JOBLIB" -> "joblib"
      [] OTHER -> text

\* PurePath.with_suffix raises ValueError for an empty name.
WithSuffixRaises(path) == path.name = <<"">>

\* A save_model that writes to the path as it was given.
SaveTargetAsGiven(path) == path

\* Lines 210-213: a path whose lower-cased suffix is neither .pkl nor .joblib
\* gets the suffix .pkl.
SaveTarget(path) ==
    LET
        \* PurePath.with_suffix('.pkl')
        WithSuffix(path0, suffix) == [path0 EXCEPT !.name = Append(Stem(path0.name), suffix)]
    IN
    IF Lower(Suffix(path.name)) \notin {"pkl", "joblib"}
    THEN WithSuffix(path, "pkl") ELSE path

\* Lines 219-227: the model and its metadata.
ModelData(ms, model_name, save_metadata) ==
    [NoFile EXCEPT !.kind = "artifact", !.model = ms[model_name],
                   !.metadata = IF save_metadata
                                THEN [present |-> TRUE, model_name |-> model_name,
                                      model_type |-> ms[model_name].type,
                                      saved_at |-> "now", version |-> "1.0.0"]
                                ELSE NoFile.metadata]

WriteFile(fsys, path, content) ==
    [fsys EXCEPT !.files = [q \in DOMAIN fsys.files \cup {path} |->
                               IF q = path THEN content ELSE fsys.files[q]]]

\* Path.mkdir(parents=True, exist_ok=True)
MkDir(fsys, dir) == [fsys EXCEPT !.dirs = fsys.dirs \cup {dir}]

\* A save_model whose name check comes too late: the directory is made
\* before the lookup of the model fails.
save_model_unvalidated(ms, fsys, model_name, filepath, save_metadata, dump_fails) ==
    IF Lower(Suffix(filepath.name)) \notin {"pkl", "joblib"} /\ WithSuffixRaises(filepath)
    THEN [ret |-> FALSE, fs |-> fsys, logged |-> {"warning", "error"}, written |-> {}]
    ELSE IF SaveTarget(filepath).parent \in fsys.locked
    THEN [ret |-> FALSE, fs |-> fsys, logged |-> {"error"}, written |-> {}]
    ELSE IF model_name \notin DOMAIN ms \/ dump_fails
    THEN [ret |-> FALSE, fs |-> MkDir(fsys, SaveTarget(filepath).parent),
          logged |-> {"error"}, written |-> {}]
    ELSE [ret |-> TRUE,
          fs |-> WriteFile(MkDir(fsys, SaveTarget(filepath).parent),
                           SaveTarget(filepath),
                           ModelData(ms, model_name, save_metadata)),
          logged |-> {"info"}, written |-> {SaveTarget(filepath)}]

\* save_model (lines 187-244): False for a name that is not in self.models;
\* else, inside try/except: the target path, its parent directory,
\* joblib.dump; any exception is logged and False returned.
save_model(ms, fsys, model_name, filepath, save_metadata, dump_fails) ==
    IF model_name \notin DOMAIN ms
    THEN [ret |-> FALSE, fs |-> fsys, logged |-> {"error"}, written |-> {}]
    ELSE IF Lower(Suffix(filepath.name)) \notin {"pkl", "joblib"} /\ WithSuffixRaises(filepath)
    THEN [ret |-> FALSE, fs |-> fsys, logged |-> {"warning", "error"}, written |-> {}]
    ELSE LET target == SaveTarget(filepath)
             warned == IF target = filepath THEN {} ELSE {"warning"}
         IN  IF target.parent \in fsys.locked
             THEN [ret |-> FALSE, fs |-> fsys, logged |-> warned \cup {"error"},
                   written |-> {}]
             ELSE IF dump_fails
             THEN [ret |-> FALSE, fs |-> MkDir(fsys, target.parent),
                   logged |-> warned \cup {"error"}, written |-> {}]
             ELSE [ret |-> TRUE,
                   fs |-> WriteFile(MkDir(fsys, target.parent), target,
                                    ModelData(ms, model_name, save_metadata)),
                   logged |-> warned \cup {"info"}, written |-> {target}]

\* joblib.load raises on what joblib.dump did not write.
LoadRaises(content) == content.kind \notin {"artifact", "legacy"}

\* A load_model without the try/except and the existence check.
load_model_unguarded(fsys, filepath, read_fails) ==
    IF filepath \notin DOMAIN fsys.files \/ read_fails \/ LoadRaises(fsys.files[filepath])
    THEN [status |-> "raised", ret |-> [kind |-> "None"], logged |-> {}]
    ELSE [status |-> "ok", logged |-> {"info"},
          ret |-> [kind |-> "dict", model |-> fsys.files[filepath].model,
                   metadata |-> fsys.files[filepath].metadata]]

\* load_model (lines 246-276): None for a missing file and for any
\* exception; the stored record, or a bare model wrapped with no metadata.
load_model(fsys, filepath, read_fails) ==
    IF filepath \notin DOMAIN fsys.files
    THEN [status |-> "ok", ret |-> [kind |-> "None"], logged |-> {"error"}]
    ELSE IF read_fails \/ LoadRaises(fsys.files[filepath])
    THEN [status |-> "ok", ret |-> [kind |-> "None"], logged |-> {"error"}]
    ELSE [status |-> "ok", logged |-> {"info"},
          ret |-> [kind |-> "dict", model |-> fsys.files[filepath].model,
                   metadata |-> IF fsys.files[filepath].kind = "artifact"
                                THEN fsys.files[filepath].metadata
                                ELSE NoFile.metadata]]

\* save_dataframe (utils.py lines 19-27): to_csv inside try/except; it makes
\* no directory.
save_dataframe(fsys, t, filepath, write_fails) ==
    LET
        ToCsv(t0) ==
            LET
                \* DataFrame.to_csv(index=False): a field per cell, a missing value as the
                \* empty field, a number as its text; the row labels are not written.
                CsvField(v) == IF IsNaN(v) THEN Str("") ELSE AsStr(v)
            IN
            [cols |-> t0.cols,
             rows |-> [i \in 1..NRows(t0) |-> [c \in t0.cols |-> CsvField(t0.rows[i][c])]]]
    IN
    IF filepath.parent \notin fsys.dirs \/ filepath.name = <<"">> \/ write_fails
    THEN [ret |-> FALSE, fs |-> fsys, logged |-> {"error"}]
    ELSE [ret |-> TRUE, logged |-> {"info"},
          fs |-> WriteFile(fsys, filepath,
                           [NoFile EXCEPT !.kind = "csv", !.table = ToCsv(t)])]

\* load_dataframe (utils.py lines 29-37): read_csv inside try/except; None
\* for a missing, unreadable or empty file.
load_dataframe(fsys, filepath, read_fails) ==
    LET
        ReadCsv(csv) ==
            LET
                \* pd.read_csv: an empty field and the text "nan" are missing; a column
                \* whose other fields are all numbers is numeric, any other column holds
                \* texts; the rows are labelled 0, 1, 2, ...
                IsNaField(v) == v = Str("") \/ v = Str("nan")
            IN
            LET numeric(c) == \A i \in 1..Len(csv.rows) :
                                 IsNaField(csv.rows[i][c]) \/ csv.rows[i][c].k = "txtnum"
                cell(v, c) == IF IsNaField(v) THEN NaN
                              ELSE IF numeric(c) THEN Rat(v.n, v.d) ELSE v
            IN  Frame(csv.cols, [c \in csv.cols |-> IF numeric(c) THEN "number" ELSE "object"],
                      RangeIndex(Len(csv.rows)),
                      [i \in 1..Len(csv.rows) |-> [c \in csv.cols |-> cell(csv.rows[i][c], c)]])
    IN
    IF \/ filepath \notin DOMAIN fsys.files
       \/ read_fails
       \/ fsys.files[filepath].kind # "csv"
       \/ fsys.files[filepath].table.cols = {}
    THEN [status |-> "ok", ret |-> [kind |-> "None"], logged |-> {"error"}]
    ELSE [status |-> "ok", logged |-> {"info"},
          ret |-> [kind |-> "DataFrame", df |-> ReadCsv(fsys.files[filepath].table)]]

----------------------------------------------------------------------------
\* src/model_evaluation.py: evaluate_model.

\* _plot_confusion_matrix (lines 114-140): everything inside try/except; with
\* save_plot the figures directory is made and the figure saved; a failure
\* is logged as a warning.  faults names the steps that raise.
plot_confusion_matrix(fsys, model_name, save_plot, faults) ==
    LET
        \* model_name.replace(' ', '_').lower() on the trainer's model names.
        PlotStem(model_name0) ==
            CASE model_name0 = "Random Forest" -> "random_forest_confusion_matrix"
              [] model_name0 = "Logistic Regression" -> "logistic_regression_confusion_matrix"
              [] model_name0 = "Gradient Boosting" -> "gradient_boosting_confusion_matrix"
    IN
    IF "heatmap" \in faults
    THEN [fs |-> fsys, logged |-> {"warning"}, written |-> {}]
    ELSE IF ~save_plot
    THEN [fs |-> fsys, logged |-> {}, written |-> {}]
    ELSE IF "savefig" \in faults
    THEN [fs |-> MkDir(fsys, "reports/figures"), logged |-> {"warning"}, written |-> {}]
    ELSE LET out_path == PathOf("reports/figures", <<PlotStem(model_name), "png">>)
         IN  [fs |-> WriteFile(MkDir(fsys, "reports/figures"), out_path,
                               [NoFile EXCEPT !.kind = "png"]),
              logged |-> {"info"}, written |-> {out_path}]

\* An evaluate_model that leaves the lengths of its inputs unchecked.
evaluate_model_unchecked(fsys, model, n_X, n_y, model_name, save_plots, faults) ==
    IF ~model.has_predict \/ ~model.has_predict_proba
    THEN [status |-> "ValueError", steps |-> <<>>, fs |-> fsys, logged |-> {},
          written |-> {}, ret |-> [kind |-> "None"]]
    ELSE IF "predict" \in faults \/ n_X = 0
    THEN [status |-> "RuntimeError", steps |-> <<>>, fs |-> fsys,
          logged |-> {"error"}, written |-> {}, ret |-> [kind |-> "None"]]
    ELSE IF "metrics" \in faults \/ n_X # n_y
    THEN [status |-> "RuntimeError", steps |-> <<"predict">>, fs |-> fsys,
          logged |-> {"error"}, written |-> {}, ret |-> [kind |-> "None"]]
    ELSE [status |-> "ok", steps |-> <<"predict", "metrics", "plot">>,
          fs |-> plot_confusion_matrix(fsys, model_name, save_plots, faults).fs,
          logged |-> plot_confusion_matrix(fsys, model_name, save_plots, faults).logged,
          written |-> plot_confusion_matrix(fsys, model_name, save_plots, faults).written,
          ret |-> [kind |-> "metrics", Model |-> model_name]]

\* evaluate_model (lines 34-111): ValueError for a model without predict or
\* predict_proba, for inputs of different lengths and for empty inputs; then,
\* inside try/except, the predictions, the metrics and the confusion-matrix
\* plot; any exception there is logged and raised as RuntimeError.
evaluate_model(fsys, model, n_X, n_y, model_name, save_plots, faults) ==
    IF ~model.has_predict \/ ~model.has_predict_proba \/ n_X # n_y \/ n_X = 0
    THEN [status |-> "ValueError", steps |-> <<>>, fs |-> fsys, logged |-> {},
          written |-> {}, ret |-> [kind |-> "None"]]
    ELSE IF "predict" \in faults
    THEN [status |-> "RuntimeError", steps |-> <<>>, fs |-> fsys,
          logged |-> {"error"}, written |-> {}, ret |-> [kind |-> "None"]]
    ELSE IF "metrics" \in faults
    THEN [status |-> "RuntimeError", steps |-> <<"predict">>, fs |-> fsys,
          logged |-> {"error"}, written |-> {}, ret |-> [kind |-> "None"]]
    ELSE LET plot == plot_confusion_matrix(fsys, model_name, save_plots, faults)
         IN  [status |-> "ok", steps |-> <<"predict", "metrics", "plot">>,
              fs |-> plot.fs, logged |-> plot.logged, written |-> plot.written,
              ret |-> [kind |-> "metrics", Model |-> model_name]]

InitRun ==
    LET
        \* Raw tables as load_dataframe reads them: a text column and the text
        \* target, and tables that lack the target.
        RunTables ==
            LET
                \* A table large enough for both splits (main's and prepare_data's) to
                \* accept it: a customer for every pair of a gender and a Partner text, half
                \* of them churned.
                TrainableTable ==
                    LET cols == {"gender", "Partner", "Churn"}
                        genders == <<Str("A"), Str("B"), Str("C"), Str("D")>>
                        rows == [i \in 1..(2 * Len(genders)) |->
                                    [gender |-> genders[(i + 1) \div 2],
                                     Partner |-> IF i % 2 = 1 THEN Str("Yes") ELSE Str("No"),
                                     Churn |-> IF i <= Len(genders) THEN Str("Yes") ELSE Str("No")]]
                    IN  Frame(cols, [c \in cols |-> "object"], RangeIndex(Len(rows)), rows)
            IN
            LET cols == {"gender", "Churn"}
            IN  {Frame(cols, [c \in cols |-> "object"], RangeIndex(Len(rows)), rows) :
                    rows \in SeqsUpTo([gender : Categories \ {Str("D")},
                                       Churn : {Str("Yes"), Str("No")}], MaxRows)}
                \cup
                {TrainableTable}
                \cup
                {Frame({"gender"}, [c \in {"gender"} |-> "object"], RangeIndex(Len(rows)), rows) :
                    rows \in SeqsUpTo([gender : Categories \ {Str("D")}], MaxRows) \ {<<>>}}
    IN
    /\ pandas2 \in BOOLEAN
    /\ df \in RunTables
    /\ label_encoders = NoEncoders
    /\ scaler = NewScaler
    /\ fit_pass = FALSE
    /\ res = NoRes
    /\ pc = "start"
    /\ split = NoSplit
    /\ models = NoModels
    /\ fs = NoFileSystem
    /\ data = NoData
    /\ call = NoCall

\* Step 1 (lines 55-58): load_dataframe returns the table, or None on a read
\* failure and main returns.
RunLoad ==
    /\ pc = "start"
    /\ pc' \in {"loaded", "exit"}
    /\ UNCHANGED <<pandas2, df, label_encoders, scaler, fit_pass, res, split>>
    /\ UNCHANGED trainer_vars

\* Step 2 (line 65): df_clean = preprocessor.clean_data(df.copy())
RunClean ==
    /\ pc = "loaded"
    /\ df' = clean_data(df, pandas2)
    /\ pc' = "cleaned"
    /\ UNCHANGED <<pandas2, label_encoders, scaler, fit_pass, res, split>>
    /\ UNCHANGED trainer_vars

\* Step 3 (line 74): df_engineered = engineer.engineer_features(df_clean.copy());
\* an exception leaves main through the handler at lines 181-183.
RunEngineer ==
    /\ pc = "cleaned"
    /\ \E fill_lands \in BOOLEAN :
       \E r \in {create_engineered_features(df, fill_lands)} :
           /\ df' = r.df
           /\ pc' = IF r.status = "ok" THEN "engineered" ELSE "failed"
    /\ UNCHANGED <<pandas2, label_encoders, scaler, fit_pass, res, split>>
    /\ UNCHANGED trainer_vars

\* Step 4 (lines 78-85): return when there is no Churn column, else
\* X_scaled, y = preprocessor.preprocess_pipeline(df_engineered, 'Churn', fit=True)
RunPreprocess ==
    /\ pc = "engineered"
    /\ IF "Churn" \notin df.cols
       THEN /\ pc' = "exit"
            /\ UNCHANGED <<label_encoders, scaler, fit_pass, res>>
       ELSE \E lenient \in BOOLEAN :
            \E r \in {preprocess_pipeline(df, "Churn", TRUE, label_encoders, scaler,
                                         pandas2, lenient)} :
                /\ res' = [NoRes EXCEPT !.op = "preprocess_pipeline", !.fit = TRUE,
                                        !.input = df, !.arg = df, !.prefit = fit_pass,
                                        !.status = r.status, !.has_y = r.has_y,
                                        !.X = r.X, !.y = r.y, !.X_index = r.X_index,
                                        !.reached = r.reached,
                                        !.scaler_input = r.scaler_input]
                /\ label_encoders' = r.label_encoders
                /\ scaler' = r.scaler
                /\ fit_pass' = TRUE
                /\ pc' = IF r.status = "ok" THEN "preprocessed" ELSE "failed"
    /\ UNCHANGED <<pandas2, df, split>>
    /\ UNCHANGED trainer_vars

\* Lines 89-91: X_train, X_test, y_train, y_test =
\*     train_test_split(X_scaled, y, test_size=0.2, random_state=42, stratify=y)
\* The partitions are kept as the sets of row labels (y keeps its index).
RunSplit ==
    /\ pc = "preprocessed"
    /\ IF SplitRejects(res.y)
       THEN pc' = "failed" /\ split' = split
       ELSE \E T \in StratifiedTests(res.y) :
               /\ split' = [test |-> {res.X_index[i] : i \in T},
                            train |-> {res.X_index[i] : i \in (1..Len(res.y)) \ T}]
               /\ pc' = "split"
    /\ UNCHANGED <<pandas2, df, label_encoders, scaler, fit_pass, res>>
    /\ UNCHANGED trainer_vars

\* Lines 97-100: trainer = ChurnModelTrainer();
\* models = trainer.train_all_models(X_train, y_train, balance_data=True)
\* on the train partition of main's split (rows known by their labels).
RunTrain ==
    /\ pc = "split"
    /\ LET pos == {i \in 1..Len(res.y) : res.X_index[i] \in split.train}
           X == [j \in 1..Cardinality(pos) |-> Row(Take(res.X_index, pos)[j])]
           y == Take(res.y, pos)
       IN  \E T \in IF SplitRejects(y) THEN {{}} ELSE StratifiedTests(y) :
           \E r \in {train_all_models(NoModels, X, y, TRUE, T)} :
               /\ data' = [X |-> X, y |-> y, T |-> T]
               /\ models' = r.models
               /\ call' = [NoCall EXCEPT !.op = "train_all_models",
                                         !.status = r.status,
                                         !.balance_data = TRUE,
                                         !.smote_raised = r.smote_raised,
                                         !.steps = r.steps, !.logged = r.logged,
                                         !.ret = r.ret]
               /\ pc' = IF r.status = "ok" THEN "trained" ELSE "failed"
    /\ UNCHANGED <<pandas2, df, label_encoders, scaler, fit_pass, res, split, fs>>

\* Lines 104-117: cross_validate catches what it raises and changes nothing;
\* then `for model_name, model in models.items()` on what train_all_models
\* returned: a tuple has no items() and main leaves through its handler.
RunEvaluate ==
    /\ pc = "trained"
    /\ pc' = IF call.ret.kind = "dict" THEN "evaluated" ELSE "failed"
    /\ UNCHANGED <<pandas2, df, label_encoders, scaler, fit_pass, res, split>>
    /\ UNCHANGED trainer_vars

NextRun ==
    \/ RunLoad \/ RunClean \/ RunEngineer \/ RunPreprocess \/ RunSplit
    \/ RunTrain \/ RunEvaluate

SpecRun == InitRun /\ [][NextRun]_vars

----------------------------------------------------------------------------
\* A trainer and one data set: trainer.train_all_models(X, y, balance_data).

\* Data sets of up to MaxSmall rows are enumerated in full.
MaxSmall == 8

\* The size of the large data sets: the smallest for which a minority class
\* keeps more than k_neighbors rows in the train partition.
MaxSamples == 17

InitTrain ==
    LET
        \* A data set and the test positions the seeded stratified shuffle selects on
        \* it (none when the split is rejected).
        TrainData ==
            LET
                \* Every target of up to MaxSmall rows, and the targets of MaxSamples rows
                \* whose minority class (churned) is large enough for SMOTE to find its
                \* neighbours after the split takes its share.
                TrainTargets ==
                    LET
                        \* Binary targets: a zeros followed by b ones.
                        Labels(a, b) == Repeat(0, a) \o Repeat(1, b)
                    IN
                    {Labels(p[1], p[2]) :
                        p \in {q \in (0..MaxSamples) \X (0..MaxSamples) :
                                  \/ q[1] + q[2] <= MaxSmall
                                  \/ /\ q[1] + q[2] = MaxSamples
                                     /\ k_neighbors + 2 <= q[2]
                                     /\ q[2] <= q[1]}}
            IN
            UNION {{[X |-> [i \in 1..Len(y) |-> Row(i)], y |-> y, T |-> T] :
                       T \in IF SplitRejects(y) THEN {{}} ELSE StratifiedTests(y)} :
                   y \in TrainTargets}
    IN
    /\ pandas2 = TRUE
    /\ df = NoTable
    /\ label_encoders = NoEncoders
    /\ scaler = NewScaler
    /\ fit_pass = FALSE
    /\ res = NoRes
    /\ pc = "api"
    /\ split = NoSplit
    /\ models = NoModels
    /\ fs = NoFileSystem
    /\ data \in TrainData
    /\ call = NoCall

\* trainer.train_all_models(X, y, balance_data=balance_data)
TrainAllModels(balance_data) ==
    /\ pc = "api"
    /\ \E r \in {train_all_models(models, data.X, data.y, balance_data, data.T)} :
           /\ models' = r.models
           /\ call' = [NoCall EXCEPT !.op = "train_all_models", !.status = r.status,
                                     !.balance_data = balance_data,
                                     !.smote_raised = r.smote_raised,
                                     !.steps = r.steps, !.logged = r.logged,
                                     !.ret = r.ret]
    /\ UNCHANGED <<pandas2, df, label_encoders, scaler, fit_pass, res, pc, split,
                   fs, data>>

NextTrain == \E balance_data \in BOOLEAN : TrainAllModels(balance_data)

SpecTrain == InitTrain /\ [][NextTrain]_vars

----------------------------------------------------------------------------
\* A trainer, a table and a file system: the train_* methods, save_model,
\* load_model, save_dataframe and load_dataframe in any order.

\* The directory out exists, new does not, and nothing can be made in locked.
PersistPaths ==
    {PathOf("out", <<"model", "pkl">>), PathOf("out", <<"model", "txt">>),
     PathOf("out", <<"model">>), PathOf("out", <<"", "pkl">>),
     PathOf("out", <<"">>), PathOf("new", <<"model", "JOBLIB">>),
     PathOf("locked", <<"model", "pkl">>)}

CsvPaths == {PathOf("out", <<"data", "csv">>), PathOf("new", <<"data", "csv">>)}

\* The paths load_model and load_dataframe are asked for: files of their
\* own kind, files of the other kind, and paths that hold nothing.
ModelLoadPaths ==
    {PathOf("out", <<"model", "pkl">>), PathOf("out", <<"model", "txt">>),
     PathOf("new", <<"model", "JOBLIB">>), PathOf("out", <<"data", "csv">>)}

CsvLoadPaths == CsvPaths \cup {PathOf("out", <<"model", "pkl">>)}

\* The names save_model is asked for: the trainer's three and one it never has.
SaveNames == Range(model_names) \cup {"Other"}

InitPersist ==
    LET
        PersistTable ==
            Frame({"gender", "TotalCharges"},
                  [c \in {"gender", "TotalCharges"} |-> "object"], <<0, 2>>,
                  <<[gender |-> Str("A"), TotalCharges |-> TxtNum(5)],
                    [gender |-> NaN, TotalCharges |-> NaN]>>)

        PersistData == [X |-> <<Row(1), Row(2)>>, y |-> <<0, 1>>, T |-> {}]

        \* A bare model pickled by an earlier version (the legacy format).
        LegacyFile ==
            [NoFile EXCEPT !.kind = "legacy",
                           !.model = [type |-> "RandomForestClassifier", stored_by |-> "",
                                      fitted_on |-> <<>>]]
    IN
    /\ pandas2 = TRUE
    /\ df = PersistTable
    /\ label_encoders = NoEncoders
    /\ scaler = NewScaler
    /\ fit_pass = FALSE
    /\ res = NoRes
    /\ pc = "api"
    /\ split = NoSplit
    /\ models = NoModels
    /\ fs \in {[dirs |-> {"out"}, locked |-> {"locked"}, files |-> NoFileSystem.files],
               [dirs |-> {"out"}, locked |-> {"locked"},
                files |-> [q \in {PathOf("out", <<"model", "pkl">>)} |-> LegacyFile]]}
    /\ data = PersistData
    /\ call = NoCall

\* trainer.train_random_forest(X, y) / train_logistic_regression(X, y) /
\* train_gradient_boosting(X, y)
TrainOne(name) ==
    /\ pc = "api"
    /\ \E r \in {TrainModel(models, name, data.X, data.y)} :
           /\ models' = r.models
           /\ call' = [NoCall EXCEPT !.op = TrainMethod(name), !.name = name,
                                     !.status = r.status]
    /\ UNCHANGED <<pandas2, df, label_encoders, scaler, fit_pass, res, pc, split,
                   fs, data>>

\* trainer.save_model(model_name, filepath)
SaveModel(model_name, filepath) ==
    /\ pc = "api"
    /\ \E dump_fails \in BOOLEAN :
       \E r \in {save_model(models, fs, model_name, filepath, TRUE, dump_fails)} :
           /\ fs' = r.fs
           /\ call' = [NoCall EXCEPT !.op = "save_model", !.name = model_name,
                                     !.path = filepath, !.logged = r.logged,
                                     !.written = r.written,
                                     !.ret = [kind |-> "bool", value |-> r.ret]]
    /\ UNCHANGED <<pandas2, df, label_encoders, scaler, fit_pass, res, pc, split,
                   models, data>>

\* trainer.load_model(filepath)
LoadModel(filepath) ==
    /\ pc = "api"
    /\ \E read_fails \in BOOLEAN :
       \E r \in {load_model(fs, filepath, read_fails)} :
           call' = [NoCall EXCEPT !.op = "load_model", !.path = filepath,
                                  !.faults = IF read_fails THEN {"read"} ELSE {},
                                  !.status = r.status, !.logged = r.logged,
                                  !.ret = r.ret]
    /\ UNCHANGED <<pandas2, df, label_encoders, scaler, fit_pass, res, pc, split,
                   models, fs, data>>

\* save_dataframe(df, filepath)
SaveDataframe(filepath) ==
    /\ pc = "api"
    /\ \E write_fails \in BOOLEAN :
       \E r \in {save_dataframe(fs, df, filepath, write_fails)} :
           /\ fs' = r.fs
           /\ call' = [NoCall EXCEPT !.op = "save_dataframe", !.path = filepath,
                                     !.logged = r.logged,
                                     !.ret = [kind |-> "bool", value |-> r.ret]]
    /\ UNCHANGED <<pandas2, df, label_encoders, scaler, fit_pass, res, pc, split,
                   models, data>>

\* load_dataframe(filepath)
LoadDataframe(filepath) ==
    /\ pc = "api"
    /\ \E read_fails \in BOOLEAN :
       \E r \in {load_dataframe(fs, filepath, read_fails)} :
           call' = [NoCall EXCEPT !.op = "load_dataframe", !.path = filepath,
                                  !.status = r.status, !.logged = r.logged,
                                  !.ret = r.ret]
    /\ UNCHANGED <<pandas2, df, label_encoders, scaler, fit_pass, res, pc, split,
                   models, fs, data>>

NextPersist ==
    \/ \E name \in Range(model_names) : TrainOne(name)
    \/ \E name \in SaveNames, path \in PersistPaths : SaveModel(name, path)
    \/ \E path \in ModelLoadPaths : LoadModel(path)
    \/ \E path \in CsvPaths : SaveDataframe(path)
    \/ \E path \in CsvLoadPaths : LoadDataframe(path)

SpecPersist == InitPersist /\ [][NextPersist]_vars

----------------------------------------------------------------------------
\* evaluate_model(model, X_test, y_test, model_name, save_plots) on models
\* with and without the prediction methods and on test data of any lengths.

\* Rows of the test data given to evaluate_model.
MaxTestRows == 2

\* The models that are evaluated.
EvalNames == {"Random Forest", "Logistic Regression"}

EvalModels == [has_predict : BOOLEAN, has_predict_proba : BOOLEAN]

InitEval ==
    /\ pandas2 = TRUE
    /\ df = NoTable
    /\ label_encoders = NoEncoders
    /\ scaler = NewScaler
    /\ fit_pass = FALSE
    /\ res = NoRes
    /\ pc = "api"
    /\ split = NoSplit
    /\ models = NoModels
    /\ fs = NoFileSystem
    /\ data = NoData
    /\ call = NoCall

EvaluateModel(model, n_X, n_y, model_name, save_plots) ==
    LET
        \* What can raise inside evaluate_model's try block and inside the plot:
        \* nothing, or one of the steps.
        EvalFaults == {{}, {"predict"}, {"metrics"}, {"heatmap"}, {"savefig"}}
    IN
    /\ pc = "api"
    /\ \E faults \in EvalFaults :
       \E r \in {evaluate_model(fs, model, n_X, n_y, model_name, save_plots, faults)} :
           /\ fs' = r.fs
           /\ call' = [NoCall EXCEPT !.op = "evaluate_model", !.name = model_name,
                                     !.status = r.status, !.n_X = n_X, !.n_y = n_y,
                                     !.faults = faults, !.steps = r.steps,
                                     !.logged = r.logged, !.written = r.written,
                                     !.ret = r.ret]
    /\ UNCHANGED <<pandas2, df, label_encoders, scaler, fit_pass, res, pc, split,
                   models, data>>

NextEval ==
    \E model \in EvalModels, n_X \in 0..MaxTestRows, n_y \in 0..MaxTestRows,
       model_name \in EvalNames, save_plots \in BOOLEAN :
        EvaluateModel(model, n_X, n_y, model_name, save_plots)

SpecEval == InitEval /\ [][NextEval]_vars

----------------------------------------------------------------------------
(* Properties of preprocess_pipeline and clean_data (SpecPipe) *)

PipelineReturned == res.op = "preprocess_pipeline" /\ res.status = "ok"

\* The position in the input table of the row behind output row i.
InputPos(i) == IndexOf(res.input.index, res.X_index[i])

\* C1: whenever preprocess_pipeline returns for a table with the target
\* column, the feature matrix and the target vector have the same number of
\* rows, also when clean_data removed duplicate feature rows.
C1_SameLength ==
    (PipelineReturned /\ res.has_y) => Len(res.X) = Len(res.y)

\* C1 witness: the pipeline returned both for a table from which clean_data
\* removed a duplicate feature row and kept at least two rows.
C1_Witness ==
    /\ PipelineReturned /\ res.has_y
    /\ Len(res.X) >= 2
    /\ Len(res.X) < NRows(res.input)

\* C2: the returned target is aligned with the returned features by row
\* label: the surviving rows are in input order, the features at output
\* position i are the encoded and scaled features of the input row with that
\* label, and target[i] is the (non-missing) target of that same input row;
\* a dropped duplicate feature row has no entry in the target.
C2_AlignedByIndex ==
    (PipelineReturned /\ res.has_y) =>
        /\ Len(res.y) = Len(res.X_index)
        /\ Len(res.X) = Len(res.X_index)
        /\ \A i \in 1..Len(res.X_index) : res.X_index[i] \in Range(res.input.index)
        /\ \A i, j \in 1..Len(res.X_index) : i < j => InputPos(i) < InputPos(j)
        /\ \A p \in 1..NRows(res.input) :
              (res.input.index[p] \in Range(res.X_index))
                  <=> (\A q \in 1..(p - 1) :
                          DropColumn(res.input, "Churn").rows[q]
                              # DropColumn(res.input, "Churn").rows[p])
        /\ \A i \in 1..Len(res.X_index) :
              LET v == res.input.rows[InputPos(i)]["Churn"]
              IN  ~IsNaN(v) => res.y[i] = v.n
        /\ \A i \in 1..Len(res.X_index) :
              LET g == res.input.rows[InputPos(i)]["gender"]
              IN  /\ AsStr(g) \in Range(label_encoders["gender"])
                  /\ res.fit =>
                        res.X[i]["gender"].dev =
                            RatSub(Num(CodeOf(label_encoders["gender"], g)),
                                   scaler.mean["gender"])

\* C2 witness: of three rows the second was dropped as a duplicate of the
\* first, and the targets of the second and the third row differ.
C2_Witness ==
    /\ PipelineReturned /\ res.has_y /\ res.fit
    /\ res.X_index = <<0, 2>>
    /\ NRows(res.input) = 3
    /\ res.input.rows[2]["Churn"] # res.input.rows[3]["Churn"]
    /\ ~IsNaN(res.input.rows[3]["Churn"])

\* C3: for a table (with at least one row) that has no target column,
\* preprocess_pipeline completes without error and returns the scaled
\* feature matrix alone.
C3_NoTargetReturnsMatrix ==
    (res.op = "preprocess_pipeline" /\ res.fit /\ ~res.has_y /\ NRows(res.input) > 0)
        => (res.status = "ok" /\ Len(res.X) > 0)

\* C4: clean_data maps the text label 'Yes' to 1 and 'No' to 0 and nothing
\* else to 0 or 1, and a target vector that preprocess_pipeline returns holds
\* no value other than 0 and 1.
C4_YesNoExact ==
    /\ (res.op = "clean_data" /\ "Churn" \in res.input.cols
            /\ res.input.dtype["Churn"] = "object") =>
          \A j \in 1..NRows(res.out) :
              LET v == res.input.rows[IndexOf(res.input.index, res.out.index[j])]["Churn"]
                  w == res.out.rows[j]["Churn"]
              IN  /\ v = Str("Yes") => w = Num(1)
                  /\ v = Str("No") => w = Num(0)
                  /\ v \notin {Str("Yes"), Str("No")} => IsNaN(w)
    /\ (PipelineReturned /\ res.has_y) => \A i \in 1..Len(res.y) : res.y[i] \in {0, 1}

\* C4 witness: the pipeline returned a target for a table whose text labels
\* clean_data had mapped before: a 1, a 0 and an unmapped label.
C4_Witness ==
    /\ PipelineReturned /\ res.has_y
    /\ res.input.dtype["Churn"] = "object"
    /\ {Num(0), Num(1), NaN} \subseteq Range(Column(res.input, "Churn"))
    /\ IsNaN(res.input.rows[InputPos(1)]["Churn"])
    /\ Len(res.y) = 2

----------------------------------------------------------------------------
(* Properties of encode_categorical (SpecEnc) *)

\* A transform call on the text column gender after a fit call stored its encoder.
TransformedGender ==
    /\ res.op = "encode_categorical" /\ ~res.fit
    /\ "gender" \in DOMAIN label_encoders
    /\ "gender" \in res.input.cols
    /\ res.input.dtype["gender"] = "object"

SeenAtFit(v) == AsStr(v) \in Range(label_encoders["gender"])

C6_SeenKeepsFitCode ==
    TransformedGender =>
        \A i \in 1..NRows(res.input) :
            SeenAtFit(res.input.rows[i]["gender"])
                => res.out.rows[i]["gender"]
                       = FitTransformCell(label_encoders["gender"],
                                          res.input.rows[i]["gender"])

\* C7: a transform-mode operation on a preprocessor on which no fit pass has
\* run signals the transform-state error instead of returning a result.
C7_TransformBeforeFitIsError ==
    (res.op \in {"encode_categorical", "scale_features", "preprocess_pipeline"}
        /\ ~res.fit /\ ~res.prefit)
        => res.status = "NotFittedError"

----------------------------------------------------------------------------
(* Properties of scale_features (SpecScale) *)

\* C8: the matrix that scale_features hands to the scaler holds no missing
\* value: every missing cell of a table was replaced by its column mean and
\* every missing cell of an array by 0, for every input, also one with a
\* column whose values are all missing.
C8_ScalerNeverSeesMissing ==
    (res.op = "scale_features" /\ res.reached) =>
        \A i \in 1..Len(res.scaler_input) : \A c \in res.input.cols :
            /\ ~IsNaN(res.scaler_input[i][c])
            /\ IsNaN(res.input.rows[i][c]) =>
                  res.scaler_input[i][c] =
                      IF res.input.kind = "array" THEN Num(0)
                      ELSE Mean(Present(res.input, c))

----------------------------------------------------------------------------
(* Properties of create_engineered_features (SpecFE) *)

\* C9: create_engineered_features completes without error for every subset
\* of the recognised source columns present in the input.
C9_AnyColumnSubsetCompletes ==
    (res.op = "create_engineered_features" /\ res.input.cols \subseteq RecognisedCols)
        => res.status = "ok"

----------------------------------------------------------------------------
(* Properties of the run_analysis flow (SpecRun) *)

\* C10: in the run_analysis flow the preprocessor's encoder and scaler
\* statistics are fitted on the training partition only: the scaler has seen
\* as many rows as the training partition holds and no row of the test
\* partition went through the fit pass.
C10_FitOnTrainOnly ==
    pc = "split" =>
        /\ scaler.n_samples_seen = Cardinality(split.train)
        /\ res.fit => split.test \cap Range(res.X_index) = {}

----------------------------------------------------------------------------
\* The ids of the rows the split put in the test partition, and the others.
TestIds == {data.X[i].id : i \in data.T}

TrainIds == Ids(data.X) \ TestIds

\* Rows that all descend from the train partition: input rows of it, or
\* synthetic rows interpolated from rows of it.
FromTrainOnly(X) ==
    \A i \in 1..Len(X) :
        IF X[i].synthetic THEN X[i].from \subseteq TrainIds ELSE X[i].id \in TrainIds

TrainAllReturned == call.op = "train_all_models" /\ call.status = "ok"

\* C11: train_all_models splits first, then balances, then fits: balancing is
\* given only rows of the train partition, the returned test partition is the
\* split's test partition with no synthetic row, and every model is fitted,
\* after the split, on rows that descend from the train partition only.
C11_SplitBalanceFit ==
    TrainAllReturned =>
        /\ call.steps[1].step = "split"
        /\ \A i \in 2..Len(call.steps) :
              \/ call.steps[i].step = "fit"
              \/ i = 2 /\ call.steps[i].step = "balance" /\ call.balance_data
        /\ \A i \in 1..Len(call.steps) :
              call.steps[i].step = "balance" =>
                  /\ Ids(call.steps[i].rows) = TrainIds
                  /\ \A j \in 1..Len(call.steps[i].rows) :
                        ~call.steps[i].rows[j].synthetic
                  /\ FromTrainOnly(call.steps[i].out)
        /\ Len(call.ret.X_test) = Cardinality(data.T)
        /\ \A j \in 1..Len(call.ret.X_test) : ~call.ret.X_test[j].synthetic
        /\ Ids(call.ret.X_test) = TestIds
        /\ \A n \in Range(model_names) :
              /\ n \in DOMAIN models
              /\ FromTrainOnly(models[n].fitted_on)
              /\ \E i \in 2..Len(call.steps) :
                    call.steps[i].step = "fit" /\ call.steps[i].name = n

\* C11 witness: a balanced training run in which SMOTE added synthetic rows.
C11_Witness ==
    /\ TrainAllReturned
    /\ call.balance_data
    /\ \E j \in 1..Len(call.ret.X_train) : call.ret.X_train[j].synthetic
    /\ \E j \in 1..Len(models["Random Forest"].fitted_on) :
          models["Random Forest"].fitted_on[j].synthetic


\* C12: train_all_models returns the dictionary of trained models keyed by
\* model name, which main() iterates with items() and indexes by name.
C12_ReturnsModelsDict ==
    TrainAllReturned =>
        /\ call.ret.kind = "dict"
        /\ DOMAIN call.ret.models = Range(model_names)
        /\ pc # "failed"


----------------------------------------------------------------------------
(* Properties of the persistence functions (SpecPersist) *)

SaveModelReturned(value) ==
    call.op = "save_model" /\ call.ret.value = value

\* C13: save_model checks the model name first: for a name that is not a key
\* of the trainer's models it returns False and the file system is left as
\* it was (no file, no directory); it returns True only for a name under
\* which a train_* method stored a model.
C13_SaveValidatesName ==
    [][call'.op = "save_model" =>
          /\ call'.name \notin DOMAIN models =>
                (call'.ret.value = FALSE /\ fs' = fs)
          /\ call'.ret.value = TRUE =>
                /\ call'.name \in DOMAIN models
                /\ models[call'.name].stored_by \in
                       {TrainMethod(n) : n \in Range(model_names)}]_vars

\* C13 witness: the trainer holds a model, and save_model is refused for a
\* name it does not hold, with a path in a directory that does not exist.
C13_Witness ==
    /\ SaveModelReturned(FALSE)
    /\ DOMAIN models # {}
    /\ call.name \notin DOMAIN models
    /\ call.path.parent = "new"
    /\ "new" \notin fs.dirs

ArtifactSuffixes == {"pkl", "joblib"}

\* C14: every file save_model writes has the suffix .pkl or .joblib (in any
\* letter case); a path with such a suffix is written as given, a path with
\* another suffix or none is written in the same directory under the same
\* stem with the suffix .pkl.
C14_SuffixNormalised ==
    /\ \A q \in DOMAIN fs.files :
          fs.files[q].kind = "artifact" => Lower(Suffix(q.name)) \in ArtifactSuffixes
    /\ SaveModelReturned(TRUE) =>
          \E w \in call.written :
              /\ call.written = {w}
              /\ w \in DOMAIN fs.files
              /\ fs.files[w].kind = "artifact"
              /\ Lower(Suffix(w.name)) \in ArtifactSuffixes
              /\ IF Lower(Suffix(call.path.name)) \in ArtifactSuffixes
                 THEN w = call.path
                 ELSE /\ w.parent = call.path.parent
                      /\ Stem(w.name) = Stem(call.path.name)
                      /\ Suffix(w.name) = "pkl"

\* C14 witness: a model saved under model.txt is in the file model.pkl.
C14_Witness ==
    /\ SaveModelReturned(TRUE)
    /\ call.path = PathOf("out", <<"model", "txt">>)
    /\ call.written = {PathOf("out", <<"model", "pkl">>)}

PersistenceOps == {"save_model", "load_model", "save_dataframe", "load_dataframe"}

\* C15: no persistence function lets an exception out: a save returns True
\* with the file written or False with the failure logged, a load returns
\* the content or None with the failure logged (None for a path that holds
\* no file), and the trainer's models are as they were.
C15_FailuresReturned ==
    [][call'.op \in PersistenceOps =>
          /\ call'.status = "ok"
          /\ models' = models
          /\ call'.op \in {"save_model", "save_dataframe"} =>
                /\ call'.ret.kind = "bool"
                /\ IF call'.ret.value
                   THEN \E q \in DOMAIN fs'.files :
                           fs'.files[q].kind =
                               IF call'.op = "save_model" THEN "artifact" ELSE "csv"
                   ELSE "error" \in call'.logged
          /\ call'.op \in {"load_model", "load_dataframe"} =>
                /\ call'.ret.kind \in {"None", "dict", "DataFrame"}
                /\ call'.ret.kind = "None" => "error" \in call'.logged
                /\ call'.path \notin DOMAIN fs.files => call'.ret.kind = "None"]_vars

\* C15 witness: the trainer holds a model and load_model is given a file
\* that joblib cannot read (a CSV): it returns None and logs the error.
C15_Witness ==
    /\ call.op = "load_model"
    /\ DOMAIN models # {}
    /\ call.path \in DOMAIN fs.files
    /\ fs.files[call.path].kind = "csv"
    /\ call.ret.kind = "None"
    /\ "error" \in call.logged

----------------------------------------------------------------------------
(* Properties of handle_imbalance within train_all_models (SpecTrain) *)

\* C16: when SMOTE raises inside handle_imbalance, the failure is logged
\* with a warning, the method returns the rows and labels it was given, and
\* train_all_models goes on to the fits.
C16_SmoteFailureFallsBack ==
    (call.op = "train_all_models" /\ call.smote_raised) =>
        /\ Len(call.steps) >= 3
        /\ call.steps[2].step = "balance"
        /\ call.steps[2].out = call.steps[2].rows
        /\ call.steps[2].out_labels = call.steps[2].labels
        /\ {"error", "warning"} \subseteq call.logged
        /\ call.steps[3].step = "fit"
        /\ call.steps[3].rows = call.steps[2].rows
        /\ call.steps[3].labels = call.steps[2].labels

\* C16 witness: SMOTE raised on a minority too small for its neighbours and
\* all three models were fitted on the unbalanced train partition.
C16_Witness ==
    /\ TrainAllReturned
    /\ call.smote_raised
    /\ Cardinality(Range(call.steps[2].labels)) = 2
    /\ \A n \in Range(model_names) : models[n].fitted_on = call.steps[2].rows


----------------------------------------------------------------------------
(* Properties of evaluate_model (SpecEval) *)

\* C17: for test data of different lengths or empty test data evaluate_model
\* raises ValueError with no prediction made and the file system as it was;
\* a failing prediction or metric gives RuntimeError and no metrics record.
C17_InputErrorsFirst ==
    [][call'.op = "evaluate_model" =>
          /\ (call'.n_X # call'.n_y \/ call'.n_X = 0) =>
                /\ call'.status = "ValueError"
                /\ call'.steps = <<>>
                /\ call'.written = {}
                /\ fs' = fs
          /\ (call'.status # "ValueError"
                /\ call'.faults \cap {"predict", "metrics"} # {}) =>
                /\ call'.status = "RuntimeError"
                /\ call'.ret.kind = "None"
                /\ fs' = fs
          /\ call'.ret.kind = "metrics" =>
                /\ call'.status = "ok"
                /\ call'.n_X = call'.n_y /\ call'.n_X > 0
                /\ call'.faults \cap {"predict", "metrics"} = {}]_vars

\* C17 witness: after an evaluation that wrote its plot, test data of
\* different lengths is refused with ValueError.
C17_Witness ==
    /\ call.op = "evaluate_model"
    /\ call.status = "ValueError"
    /\ call.n_X = 2 /\ call.n_y = 1
    /\ DOMAIN fs.files # {}


----------------------------------------------------------------------------
(* Properties of clean_data (SpecPipe) *)

\* C18: clean_data applied to the output of clean_data removes no further
\* row: the second of two consecutive applications returns as many rows as
\* the first.
C18_CleanTwiceSameRows ==
    [][(res.op = "clean_data" /\ res'.op = "clean_data")
          => NRows(res'.out) = NRows(res.out)]_vars

\* The positions of the input rows that no earlier row equals.
FirstOccurrences(t) ==
    {i \in 1..NRows(t) : \A j \in 1..(i - 1) : t.rows[j] # t.rows[i]}

\* C19: clean_data returns one row for each distinct input row, the first
\* occurrence, in input order (the output rows carry the labels of those
\* input rows), and never more rows than it was given.
C19_OneRowPerDistinctRow ==
    res.op = "clean_data" =>
        /\ NRows(res.out) = Cardinality(Range(res.input.rows))
        /\ NRows(res.out) <= NRows(res.input)
        /\ res.out.index =
               [k \in 1..Cardinality(FirstOccurrences(res.input)) |->
                   res.input.index[Ascending(FirstOccurrences(res.input))[k]]]

\* C19 witness: three rows, the third an exact duplicate of the first; the
\* first two are returned.
C19_Witness ==
    /\ res.op = "clean_data"
    /\ NRows(res.input) = 3
    /\ res.input.rows[1] = res.input.rows[3]
    /\ res.input.rows[1] # res.input.rows[2]
    /\ res.out.index = <<0, 1>>

----------------------------------------------------------------------------
(* Properties of the tenure buckets (SpecFE) *)

\* C20: every tenure from 0 to 72, the boundaries 0, 12, 24, 48 and 72
\* included, gets one of the four tenure_group labels.
C20_EveryTenureHasGroup ==
    (res.op = "create_engineered_features" /\ res.status = "ok"
        /\ "tenure" \in res.input.cols) =>
        \A i \in 1..NRows(res.input) :
            (IsNum(res.input.rows[i]["tenure"])
                /\ ~RatLess(res.input.rows[i]["tenure"], Num(0))
                /\ ~RatLess(Num(72), res.input.rows[i]["tenure"]))
            => res.out.rows[i]["tenure_group"] \in {Str(tenure_labels[k]) : k \in 1..4}


----------------------------------------------------------------------------
(* Properties of the tenure and charge features (SpecFE) *)

EngineeredOk == res.op = "create_engineered_features" /\ res.status = "ok"

\* C21: for every row whose tenure and MonthlyCharges are present,
\* is_new_customer is 1 exactly when tenure < 12, is_long_term is 1 exactly
\* when tenure > 48, the two are never both 1, and total_revenue is
\* MonthlyCharges x tenure.
C21_TenureFlagsAndRevenue ==
    (EngineeredOk /\ {"tenure", "MonthlyCharges"} \subseteq res.input.cols) =>
        \A i \in 1..NRows(res.input) :
            LET tenure == ToNumeric(res.input.rows[i]["tenure"])
                monthly == ToNumeric(res.input.rows[i]["MonthlyCharges"])
                row == res.out.rows[i]
            IN  (IsNum(tenure) /\ IsNum(monthly)) =>
                    /\ row["is_new_customer"] \in {Num(0), Num(1)}
                    /\ row["is_long_term"] \in {Num(0), Num(1)}
                    /\ (row["is_new_customer"] = Num(1)) <=> (tenure.n < 12 * tenure.d)
                    /\ (row["is_long_term"] = Num(1)) <=> (tenure.n > 48 * tenure.d)
                    /\ ~(row["is_new_customer"] = Num(1) /\ row["is_long_term"] = Num(1))
                    /\ row["total_revenue"].n * monthly.d * tenure.d
                           = monthly.n * tenure.n * row["total_revenue"].d
                    /\ IsNum(row["total_revenue"])

\* C21 witness: tenure 5 and MonthlyCharges 50 give is_new_customer 1,
\* is_long_term 0 and total_revenue 250.
C21_Witness ==
    /\ EngineeredOk
    /\ {"tenure", "MonthlyCharges"} \subseteq res.input.cols
    /\ \E i \in 1..NRows(res.input) :
           /\ res.input.rows[i]["tenure"] = Num(5)
           /\ res.input.rows[i]["MonthlyCharges"] = Num(50)
           /\ res.out.rows[i]["is_new_customer"] = Num(1)
           /\ res.out.rows[i]["is_long_term"] = Num(0)
           /\ res.out.rows[i]["total_revenue"] = Num(250)

\* The rows C22 speaks about: tenure 0, or tenure and MonthlyCharges both
\* non-negative.
ZeroOrNonNegative(row) ==
    \/ row["tenure"] = Num(0)
    \/ /\ IsNum(row["tenure"]) /\ row["tenure"].n >= 0
       /\ IsNum(row["MonthlyCharges"]) /\ row["MonthlyCharges"].n >= 0

\* The denominator of the row is a number that is at least 1, and the
\* quotient is no division by zero.
DenominatorAtLeastOne(row) ==
    /\ IsNum(ChargeDenominator(row))
    /\ ChargeDenominator(row).n >= ChargeDenominator(row).d
    /\ row["charge_ratio"].k # "inf"
    /\ IsNum(row["TotalCharges"]) =>
           /\ IsNum(row["charge_ratio"])
           /\ row["charge_ratio"].n * ChargeDenominator(row).n * row["TotalCharges"].d
                  = row["TotalCharges"].n * row["charge_ratio"].d * ChargeDenominator(row).d

\* C22 as stated: for every row with tenure 0, and every row with
\* non-negative tenure and MonthlyCharges, the denominator
\* MonthlyCharges x tenure + 1 of charge_ratio is at least 1.
C22_DenominatorAtLeastOne ==
    (EngineeredOk /\ "charge_ratio" \in res.out.cols) =>
        \A i \in 1..NRows(res.out) :
            ZeroOrNonNegative(res.out.rows[i]) => DenominatorAtLeastOne(res.out.rows[i])

\* C22 amended: for every row with tenure 0 whose MonthlyCharges is not
\* missing, and every row with non-negative tenure and MonthlyCharges, the
\* denominator of charge_ratio is at least 1; with tenure 0 and a missing
\* MonthlyCharges the denominator is missing, and charge_ratio is missing
\* rather than a division by zero.
C22_DenominatorAtLeastOneWhenPresent ==
    (EngineeredOk /\ "charge_ratio" \in res.out.cols) =>
        \A i \in 1..NRows(res.out) :
            LET row == res.out.rows[i]
            IN  ZeroOrNonNegative(row) =>
                    IF IsNum(row["MonthlyCharges"])
                    THEN DenominatorAtLeastOne(row)
                    ELSE IsNaN(ChargeDenominator(row)) /\ IsNaN(row["charge_ratio"])

\* C22 witness: a row with tenure 0 gets TotalCharges / 1.
C22_Witness ==
    /\ EngineeredOk
    /\ "charge_ratio" \in res.out.cols
    /\ \E i \in 1..NRows(res.out) :
           /\ res.out.rows[i]["tenure"] = Num(0)
           /\ res.out.rows[i]["MonthlyCharges"] = Num(50)
           /\ ChargeDenominator(res.out.rows[i]) = Num(1)
           /\ res.out.rows[i]["charge_ratio"] = Num(250)


----------------------------------------------------------------------------
(* Properties of the encoders and of the fit state (SpecLife) *)

\* A fit-mode encoding, by either encoder, of a table whose gender column is
\* a text column.
FitEncodedGender ==
    /\ res.op \in {"encode_categorical", "encode_categorical_variables"}
    /\ res.fit /\ res.status = "ok"
    /\ "gender" \in res.input.cols
    /\ res.input.dtype["gender"] = "object"

\* The distinct values of the encoded column at fit time (Series.unique()
\* less the missing entries, whose number is Series.nunique()).
DistinctGenders == {res.input.rows[i]["gender"] : i \in 1..NRows(res.input)} \ {NaN}

\* C23: a text column with exactly two distinct values at fit time is
\* encoded to the integer codes 0 and 1 only, and the Preprocessor keeps the
\* value-to-code assignment: the stored encoder gives every value its code.
C23_TwoValuesGetZeroOne ==
    (FitEncodedGender /\ Cardinality(DistinctGenders) = 2) =>
        /\ "gender" \in res.out.cols
        /\ \A i \in 1..NRows(res.out) : res.out.rows[i]["gender"] \in {Num(0), Num(1)}
        /\ res.op = "encode_categorical" =>
               /\ "gender" \in DOMAIN label_encoders
               /\ \A i \in 1..NRows(res.out) :
                      res.out.rows[i]["gender"]
                          = Num(IndexOf(label_encoders["gender"],
                                        AsStr(res.input.rows[i]["gender"])) - 1)

\* C24: a text column with more than two distinct values at fit time is
\* replaced, by the Preprocessor and by the feature-engineering encoder, with
\* the indicator columns gender_<category> of every category but one
\* reference category; the original column is removed.
C24_ManyValuesGetIndicators ==
    (FitEncodedGender /\ Cardinality(DistinctGenders) > 2) =>
        /\ "gender" \notin res.out.cols
        /\ \E reference \in DistinctGenders :
               /\ {c \in res.out.cols : c \notin res.input.cols}
                      = {"gender_" \o v.s : v \in DistinctGenders \ {reference}}
               /\ \A v \in DistinctGenders \ {reference} :
                  \A i \in 1..NRows(res.out) :
                      (res.out.rows[i]["gender_" \o v.s].n = 1)
                          <=> (res.input.rows[i]["gender"] = v)

\* C25: a transform-mode call (encode_categorical, scale_features or
\* preprocess_pipeline with fit=False) that follows a fit pass leaves the
\* label encoders, keys and mappings, and the scaler's statistics as they were.
C25_TransformKeepsFitState ==
    [][(fit_pass
          /\ res'.op \in {"encode_categorical", "scale_features", "preprocess_pipeline"}
          /\ ~res'.fit)
          => (label_encoders' = label_encoders /\ scaler' = scaler)]_vars

\* C25 witness: after a fit pass that stored an encoder and fitted the
\* scaler, a transform-mode pipeline call on a table that holds a value the
\* encoder has not seen has completed.
C25_Witness ==
    /\ res.op = "preprocess_pipeline" /\ ~res.fit /\ res.prefit
    /\ res.status = "ok"
    /\ "gender" \in DOMAIN label_encoders
    /\ scaler.fitted
    /\ \E i \in 1..NRows(res.input) :
           AsStr(res.input.rows[i]["gender"]) \notin Range(label_encoders["gender"])

\* C30: no operation of the preprocessing and feature-engineering interface
\* changes the table it was passed: after the call the caller's table has
\* the rows, columns and values it had before.
C30_ArgumentUnchanged ==
    res.op # "none" =>
        /\ res.arg.cols = res.input.cols
        /\ res.arg.index = res.input.index
        /\ res.arg.rows = res.input.rows


----------------------------------------------------------------------------
(* Properties of the target and of TotalCharges (SpecPipe) *)

\* The target values, as given, of the rows that survive cleaning.
SurvivingTarget ==
    [i \in 1..Len(res.X_index) |-> res.input.rows[InputPos(i)]["Churn"]]

\* C26: in the target that preprocess_pipeline returns every entry is an
\* integer, and an entry that was missing holds a most frequent value of the
\* non-missing target values of the surviving rows, 0 when all are missing.
C26_MissingTargetGetsMajority ==
    (PipelineReturned /\ res.has_y) =>
        LET present == {i \in 1..Len(SurvivingTarget) : ~IsNaN(SurvivingTarget[i])}
            Count(v) == Cardinality({i \in present : SurvivingTarget[i] = v})
        IN  /\ Len(res.y) = Len(SurvivingTarget)
            /\ \A i \in 1..Len(res.y) : res.y[i] \in Int
            /\ \A i \in 1..Len(res.y) :
                  IsNaN(SurvivingTarget[i]) =>
                      IF present = {} THEN res.y[i] = 0
                      ELSE \E j \in present :
                              /\ SurvivingTarget[j] = Num(res.y[i])
                              /\ \A k \in present :
                                    Count(SurvivingTarget[k]) <= Count(SurvivingTarget[j])

\* C26 witness: of four surviving rows two churned, one did not and one has
\* no target; the missing entry is returned as 1.
C26_Witness ==
    /\ PipelineReturned /\ res.has_y
    /\ SurvivingTarget = <<Num(1), Num(0), NaN, Num(1)>>
    /\ res.y = <<1, 0, 1, 1>>

\* The TotalCharges entries of the rows that clean_data keeps, coerced to
\* numbers (missing where the text does not read as one).
CoercedCharges ==
    [j \in 1..NRows(res.out) |->
        ToNumeric(res.input.rows[IndexOf(res.input.index, res.out.index[j])]["TotalCharges"])]

CleanedCharges == res.op = "clean_data" /\ "TotalCharges" \in res.input.cols

\* Every TotalCharges entry of the output is a number: the coerced entry,
\* or the median of the coercible entries where it could not be coerced.
ChargesFilledWithMedian ==
    LET coercible == Present([rows |-> [j \in 1..NRows(res.out) |->
                                           [TotalCharges |-> CoercedCharges[j]]]],
                             "TotalCharges")
    IN  \A j \in 1..NRows(res.out) :
            /\ IsNum(res.out.rows[j]["TotalCharges"])
            /\ res.out.rows[j]["TotalCharges"]
                   = IF IsNum(CoercedCharges[j]) THEN CoercedCharges[j]
                     ELSE Median(coercible)

\* C27 as stated: after clean_data a TotalCharges column holds no missing
\* value, for every input table: an entry that cannot be coerced to a number
\* is replaced by the median of the coercible entries.
C27_TotalChargesFilled ==
    CleanedCharges => ChargesFilledWithMedian

\* C27 amended: the same for every input table in which at least one
\* TotalCharges entry can be coerced to a number; when none can, the median
\* is missing and every entry of the column stays missing.
C27_TotalChargesFilledWhenCoercible ==
    CleanedCharges =>
        IF \E j \in 1..NRows(res.out) : IsNum(CoercedCharges[j])
        THEN ChargesFilledWithMedian
        ELSE \A j \in 1..NRows(res.out) : IsNaN(res.out.rows[j]["TotalCharges"])

\* C27 witness: of the entries "10", "30" and a blank, the blank is replaced
\* by the median 20.
C27_Witness ==
    /\ CleanedCharges
    /\ NRows(res.out) = 3
    /\ CoercedCharges = <<Num(10), NaN, Num(30)>>
    /\ res.out.rows[2]["TotalCharges"] = Num(20)


----------------------------------------------------------------------------
(* Properties of the save/load round trip (SpecPersist) *)

\* C28: when save_model(name, path) has returned True, a load_model(path)
\* that follows with the same path argument (and reads without an I/O
\* fault) returns a record whose model is the saved model and whose metadata
\* holds model_name = name, model_type, saved_at and version (save_model is
\* called with save_metadata at its default, True).
C28_SaveLoadRoundTrip ==
    [][(call.op = "save_model" /\ SaveModelReturned(TRUE)
          /\ call'.op = "load_model" /\ call'.path = call.path /\ call'.faults = {})
          => /\ call'.ret.kind = "dict"
             /\ call'.ret.model = models[call.name]
             /\ call'.ret.metadata.present
             /\ call'.ret.metadata.model_name = call.name
             /\ call'.ret.metadata.model_type = models[call.name].type
             /\ call'.ret.metadata.saved_at # ""
             /\ call'.ret.metadata.version # ""]_vars


----------------------------------------------------------------------------
(* Properties of the guards of the derived columns (SpecFE) *)

\* C29: in the table a completed create_engineered_features returns, each
\* derived column is present exactly when the columns its formula reads are
\* present in the input: family_size exactly when Partner and Dependents are
\* both present, charge_category exactly when MonthlyCharges is present,
\* num_services exactly when at least one service column is present, and
\* charge_ratio only when TotalCharges, MonthlyCharges and tenure are all
\* present.
C29_DerivedExactlyWhenSourcesPresent ==
    EngineeredOk =>
        /\ "family_size" \in res.out.cols
              <=> {"Partner", "Dependents"} \subseteq res.input.cols
        /\ "charge_category" \in res.out.cols
              <=> "MonthlyCharges" \in res.input.cols
        /\ "num_services" \in res.out.cols
              <=> service_cols \cap res.input.cols # {}
        /\ "charge_ratio" \in res.out.cols
              => {"TotalCharges", "MonthlyCharges", "tenure"} \subseteq res.input.cols

====
